---- MODULE Spec2Model ----
(***************************************************************************)
(* Model of the dzx runtime: the JSON-RPC dispatcher (handleRequest,       *)
(* handleStream, handleSingle), the schema validator adapter, the tool     *)
(* invocation pipeline and the metrics recorder of runtime/index.ts.       *)
(***************************************************************************)
EXTENDS Integers, Sequences, FiniteSets, TLC

(***************************************************************************)
(* Bounds of the model.                                                    *)
(***************************************************************************)
\* number of exchanges (API calls, HTTP requests) one behaviour performs
MaxServed == 1
\* largest value Date.now() - toolStart takes
MaxElapsed == 1
\* number of calls the window specification records on top of the calls
\* the window has seen before
MaxRecorded == 3
\* number of requests the concurrent specification lets arrive
MaxArrivals == 2
\* number of tools/call requests in flight at once
MaxInFlight == 1

(***************************************************************************)
(* Program constants.                                                      *)
(***************************************************************************)
DEFAULT_TOOL_TIMEOUT_MS == 30000
MAX_LATENCY_SAMPLES == 50
MAX_RECENT_ERRORS == 5
PARSE_ERROR == -32700
INVALID_REQUEST == -32600
METHOD_NOT_FOUND == -32601
INVALID_PARAMS == -32602

(***************************************************************************)
(* JSON values.  Every value is a record of one shape; a member that is    *)
(* absent reads as Undef, as a property read in JavaScript gives           *)
(* undefined.  A string that matters character by character (a method      *)
(* name) is a sequence of its pieces: words and the separators "." "/".    *)
(***************************************************************************)
Undef == "$undefined"
JNull == "$null"
NotString == "$number"

\* request.method: absent, a string (sequence of pieces) or a non-string
NoMethod == [k |-> "undefined", s |-> <<>>]
Str(s) == [k |-> "string", s |-> s]
NumMethod == [k |-> "number", s |-> <<>>]

\* request.params: absent, a non-object or an object with the members read
NoParams == [k |-> "undefined", name |-> Undef, arguments |-> Undef,
             uri |-> NoMethod, protocolVersion |-> Undef]
ScalarParams == [NoParams EXCEPT !.k = "scalar"]
Params(name, arguments, uri, protocolVersion) ==
  [k |-> "object", name |-> name, arguments |-> arguments,
   uri |-> uri, protocolVersion |-> protocolVersion]
EmptyParams == Params(Undef, Undef, NoMethod, Undef)

JValue(t, jsonrpc, id, method, params, elems) ==
  [t |-> t, jsonrpc |-> jsonrpc, id |-> id, method |-> method,
   params |-> params, elems |-> elems]
Obj(jsonrpc, id, method, params) ==
  JValue("object", jsonrpc, id, method, params, <<>>)
EmptyObj == Obj(Undef, Undef, NoMethod, NoParams)
Scalar(t) == JValue(t, Undef, Undef, NoMethod, NoParams, <<>>)
JNullValue == Scalar("null")
JNumber == Scalar("number")
JString == Scalar("string")
Arr(elems) == JValue("array", Undef, Undef, NoMethod, NoParams, elems)

(***************************************************************************)
(* Text.  A request body is a sequence of characters.  The structural      *)
(* characters { } [ ] , " \ and white space are single tokens; "members"   *)
(* is the text of the members of one object and "literal" the text of one  *)
(* number, null or quoted string without structural characters: both are   *)
(* balanced in quotes and brackets; "junk" is any other character.         *)
(***************************************************************************)
Ch(c) == [c |-> c, v |-> JNullValue]
Members(v) == [c |-> "members", v |-> v]
Literal(v) == [c |-> "literal", v |-> v]
WS == Ch(" ")
Junk == Ch("x")

RECURSIVE SkipWs(_, _)
SkipWs(s, i) ==
  IF i <= Len(s) /\ s[i].c = " " THEN SkipWs(s, i + 1) ELSE i

RECURSIVE SkipWsBack(_, _)
SkipWsBack(s, i) ==
  IF i >= 1 /\ s[i].c = " " THEN SkipWsBack(s, i - 1) ELSE i

\* String.prototype.trim
Trim(s) ==
  LET a == SkipWs(s, 1)
      b == SkipWsBack(s, Len(s))
  IN IF a > b THEN <<>> ELSE SubSeq(s, a, b)

StartsWith(s, c) == Len(s) > 0 /\ s[1].c = c

\* JSON.stringify of a value
RECURSIVE Stringify(_)
RECURSIVE StringifyElems(_, _)
StringifyElems(elems, i) ==
  IF i > Len(elems) THEN <<>>
  ELSE (IF i > 1 THEN <<Ch(",")>> ELSE <<>>)
       \o Stringify(elems[i]) \o StringifyElems(elems, i + 1)
Stringify(v) ==
  CASE v.t = "object" ->
         IF v = EmptyObj THEN <<Ch("{"), Ch("}")>>
         ELSE <<Ch("{"), Members(v), Ch("}")>>
    [] v.t = "array" -> <<Ch("[")>> \o StringifyElems(v.elems, 1) \o <<Ch("]")>>
    [] OTHER -> <<Literal(v)>>

\* JSON.parse: ok = FALSE stands for the SyntaxError it throws
ParseFail == [ok |-> FALSE, v |-> JNullValue, next |-> 0]
ParseOk(v, next) == [ok |-> TRUE, v |-> v, next |-> next]

\* end of the quoted string that opens at s[i] (0 when it never closes)
RECURSIVE StringEnd(_, _)
StringEnd(s, i) ==
  IF i > Len(s) THEN 0
  ELSE IF s[i].c = "\\" THEN StringEnd(s, i + 2)
  ELSE IF s[i].c = "\"" THEN i
  ELSE StringEnd(s, i + 1)

\* the members that follow the first ones of an object, each written out as
\* , "key" : "text": the index after them, 0 when they are malformed
RECURSIVE SkipMembers(_, _)
SkipMembers(s, i0) ==
  LET i == SkipWs(s, i0) IN
  IF i > Len(s) \/ s[i].c # "," THEN i
  ELSE LET k == SkipWs(s, i + 1) IN
       IF k > Len(s) \/ s[k].c # "\"" THEN 0
       ELSE LET ke == StringEnd(s, k + 1)
                c == SkipWs(s, ke + 1)
                v == SkipWs(s, c + 1)
                ve == StringEnd(s, v + 1)
            IN IF ke = 0 \/ c > Len(s) \/ s[c].c # ":" THEN 0
               ELSE IF v > Len(s) \/ s[v].c # "\"" \/ ve = 0 THEN 0
               ELSE SkipMembers(s, ve + 1)

RECURSIVE ParseValue(_, _)
RECURSIVE ParseElems(_, _, _, _)
ParseValue(s, i0) ==
  LET i == SkipWs(s, i0) IN
  IF i > Len(s) THEN ParseFail
  ELSE CASE s[i].c = "literal" -> ParseOk(s[i].v, i + 1)
         [] s[i].c = "\"" ->
              LET e == StringEnd(s, i + 1) IN
              IF e = 0 THEN ParseFail ELSE ParseOk(JString, e + 1)
         [] s[i].c = "{" ->
              LET j == SkipWs(s, i + 1) IN
              IF j <= Len(s) /\ s[j].c = "}" THEN ParseOk(EmptyObj, j + 1)
              ELSE IF j <= Len(s) /\ s[j].c = "members"
                THEN LET k == SkipMembers(s, j + 1) IN
                     IF k # 0 /\ k <= Len(s) /\ s[k].c = "}"
                       THEN ParseOk(s[j].v, k + 1) ELSE ParseFail
              ELSE ParseFail
         [] s[i].c = "[" -> ParseElems(s, i + 1, <<>>, FALSE)
         [] OTHER -> ParseFail
\* the elements after "[": afterComma says that a value has to follow
ParseElems(s, i0, acc, afterComma) ==
  LET i == SkipWs(s, i0) IN
  IF i > Len(s) THEN ParseFail
  ELSE IF s[i].c = "]"
    THEN IF afterComma THEN ParseFail ELSE ParseOk(Arr(acc), i + 1)
  ELSE LET r == ParseValue(s, i) IN
       IF ~r.ok THEN ParseFail
       ELSE LET j == SkipWs(s, r.next) IN
            IF j > Len(s) THEN ParseFail
            ELSE IF s[j].c = "," THEN ParseElems(s, j + 1, Append(acc, r.v), TRUE)
            ELSE IF s[j].c = "]" THEN ParseOk(Arr(Append(acc, r.v)), j + 1)
            ELSE ParseFail

JSONparse(s) ==
  LET r == ParseValue(s, 1) IN
  IF r.ok /\ SkipWs(s, r.next) > Len(s) THEN r ELSE ParseFail

(***************************************************************************)
(* splitJsonRpcRequests: the scanner that cuts a streaming body into its   *)
(* top-level { } and [ ] segments.                                         *)
(***************************************************************************)
\* a token of several characters that begins with a quote: when its first
\* character is swallowed by a preceding backslash, one quote is left over
OpensWithQuote(tok) ==
  tok.c = "members" \/ (tok.c = "literal" /\ tok.v.t = "string")

ScanInit ==
  [segments |-> <<>>, depth |-> 0, inString |-> FALSE, escaped |-> FALSE,
   start |-> 0]

\* one iteration of the loop over raw[index]
ScanStep(st, raw, index) ==
  LET char == raw[index].c IN
  IF st.escaped
    THEN [st EXCEPT !.escaped = FALSE,
                    !.inString = IF OpensWithQuote(raw[index])
                                   THEN ~st.inString ELSE st.inString]
  ELSE IF char = "\\" THEN [st EXCEPT !.escaped = TRUE]
  ELSE IF char = "\"" THEN [st EXCEPT !.inString = ~st.inString]
  ELSE IF st.inString THEN st
  ELSE IF char = "{" \/ char = "["
    THEN [st EXCEPT !.start = IF st.depth = 0 THEN index ELSE st.start,
                    !.depth = st.depth + 1]
  ELSE IF (char = "}" \/ char = "]") /\ st.depth > 0
    THEN IF st.depth - 1 = 0 /\ st.start # 0
           THEN [st EXCEPT !.depth = 0,
                           !.segments = Append(st.segments,
                                               SubSeq(raw, st.start, index)),
                           !.start = 0]
           ELSE [st EXCEPT !.depth = st.depth - 1]
  ELSE st

RECURSIVE Scan(_, _, _)
Scan(st, raw, index) ==
  IF index > Len(raw) THEN st ELSE Scan(ScanStep(st, raw, index), raw, index + 1)

splitJsonRpcRequests(raw) ==
  LET trimmed == Trim(raw) IN
  IF trimmed = <<>> THEN <<>>
  ELSE LET segments == Scan(ScanInit, raw, 1).segments IN
       IF Len(segments) = 0 THEN <<trimmed>> ELSE segments

(***************************************************************************)
(* normalizeMethod and the method names the dispatcher knows.              *)
(***************************************************************************)
Includes(s, piece) == \E i \in 1..Len(s) : s[i] = piece

\* method.split(a).join(b)
SplitJoin(s, a, b) == [i \in 1..Len(s) |-> IF s[i] = a THEN b ELSE s[i]]

\* !method
Falsy(method) ==
  method.k = "undefined" \/ (method.k = "string" /\ method.s = <<>>)

\* a non-string has no includes(): the call throws a TypeError
normalizeMethodThrows(method) == ~Falsy(method) /\ method.k # "string"

\* faulty variant: only the first dot becomes a slash
normalizeMethodFirstDot(method) ==
  IF Falsy(method) THEN method
  ELSE IF Includes(method.s, ".") /\ ~Includes(method.s, "/")
    THEN LET first == CHOOSE i \in 1..Len(method.s) :
                        /\ method.s[i] = "."
                        /\ \A j \in 1..(i - 1) : method.s[j] # "."
         IN Str([method.s EXCEPT ![first] = "/"])
  ELSE method

normalizeMethod(method) ==
  IF Falsy(method) THEN method
  ELSE IF Includes(method.s, ".") /\ ~Includes(method.s, "/")
    THEN Str(SplitJoin(method.s, ".", "/"))
  ELSE method

M1(a) == Str(<<a>>)
M2(a, b) == Str(<<a, "/", b>>)
M3(a, b, c) == Str(<<a, "/", b, "/", c>>)

\* the case labels of the switch in handleSingle
SupportedMethods ==
  {M1("initialize"), M2("notifications", "initialized"), M1("ping"),
   M2("tools", "list"), M2("tools", "call"), M2("resources", "list"),
   M2("resources", "read"), M2("resources", "subscribe"),
   M2("resources", "unsubscribe"), M2("prompts", "list"),
   M2("prompts", "get"), M2("logging", "setLevel"),
   M2("notifications", "cancelled"), M2("notifications", "canceled")}

(***************************************************************************)
(* Descriptors.  A schema is described by the validator shape it exposes   *)
(* (k), the payloads it accepts, how a validate()-style schema reports a   *)
(* failure, whether it exposes toJSONSchema() and its serialized form.     *)
(* Payloads are classes of values: the arguments of a call and the values  *)
(* a handler returns.                                                      *)
(***************************************************************************)
ArgValues == {"{}", "good", "bad"}
OutputValues == {Undef, JNull, "text", "obj_good", "obj_bad", "array"}
Payloads == ArgValues \cup OutputValues

NoSchema ==
  [k |-> "undefined", accepts |-> {}, signal |-> "none",
   toJSONSchema |-> FALSE, key |-> Undef]
Schema(k, accepts, signal, toJSONSchema, key) ==
  [k |-> k, accepts |-> accepts, signal |-> signal,
   toJSONSchema |-> toJSONSchema, key |-> key]

\* what discovery hands to the runtime for the tools directory of the repo
ToolTable ==
  << [name |-> "joi-sum", file |-> "tools/joi-sum.ts", hasLocation |-> FALSE,
      inputSchema |-> Schema("validate", {"good"}, "error", FALSE, "joi-in"),
      outputSchema |-> Schema("json", {"obj_good"}, "none", FALSE, "sum-out"),
      inputSchemaSource |-> "schema", outputSchemaSource |-> "jsdoc"],
     [name |-> "plain", file |-> "tools/plain.ts", hasLocation |-> TRUE,
      inputSchema |-> Schema("json", ArgValues, "none", FALSE, "open-object"),
      outputSchema |-> Schema("json", Payloads, "none", FALSE, "any"),
      inputSchemaSource |-> "default", outputSchemaSource |-> "default"],
     [name |-> "smart-hello", file |-> "tools/smart-hello.ts",
      hasLocation |-> TRUE,
      inputSchema |-> Schema("parse", {"good"}, "throw", TRUE, "hello-in"),
      outputSchema |-> Schema("parse", {"obj_good"}, "throw", TRUE, "hello-out"),
      inputSchemaSource |-> "schema", outputSchemaSource |-> "schema"],
     [name |-> "yup-bad", file |-> "tools/yup-bad.ts", hasLocation |-> FALSE,
      inputSchema |-> Schema("validate", {"good"}, "throw", FALSE, "yup-in"),
      outputSchema |-> Schema("json", {}, "uncompilable", FALSE, "broken"),
      inputSchemaSource |-> "schema", outputSchemaSource |-> "signature"] >>

\* the resource and prompt documents of the repo
ResourceFiles == {"resources/guide.md"}
PromptFiles == {"prompts/summarize.md"}
AllFiles == ResourceFiles \cup PromptFiles

ResourceTable ==
  << [name |-> "guide", file |-> "resources/guide.md",
      mediaType |-> "text/markdown"] >>
PromptTable ==
  << [name |-> "summarize", file |-> "prompts/summarize.md",
      inputs |-> <<"text">>] >>

\* discoverResources / discoverPrompts list the documents that exist
discoverResources(present) ==
  LET There(r) == r.file \in present IN SelectSeq(ResourceTable, There)
discoverPrompts(present) ==
  LET There(r) == r.file \in present IN SelectSeq(PromptTable, There)

resourceUri(name) == <<"resource://", name>>

formatToolLocation(tool) ==
  IF tool.hasLocation THEN <<tool.file, ":line:column">> ELSE <<tool.file>>

\* Array.prototype.find: the index of the first element that passes the
\* test, given the outcome of the test for each element (0: none passes)
FindIndex(passes) ==
  IF \E i \in 1..Len(passes) : passes[i]
    THEN CHOOSE i \in 1..Len(passes) :
           passes[i] /\ \A j \in 1..(i - 1) : ~passes[j]
    ELSE 0

(***************************************************************************)
(* validateSchema: the validator adapter with its cache of compiled        *)
(* JSON Schema validators (schemaCache, keyed by the serialized schema).   *)
(***************************************************************************)
Verdict(ok, error, cache) == [ok |-> ok, error |-> error, cache |-> cache]

\* faulty variant: a validator that accepts every payload
validateSchemaLax(schema, payload, cache) == Verdict(TRUE, Undef, cache)

validateSchema(schema, payload, cache) ==
  CASE schema.k = "undefined" -> Verdict(TRUE, Undef, cache)
    [] schema.k = "parse" ->
         IF payload \in schema.accepts THEN Verdict(TRUE, Undef, cache)
         ELSE Verdict(FALSE, "issues", cache)
    [] schema.k = "validate" ->
         IF payload \in schema.accepts THEN Verdict(TRUE, Undef, cache)
         ELSE IF schema.signal = "error"
           THEN Verdict(FALSE, "validation failed", cache)
           ELSE Verdict(FALSE, "thrown message", cache)
    [] OTHER ->
         IF schema.key \notin cache /\ schema.signal = "uncompilable"
           THEN Verdict(FALSE, "Invalid schema definition", cache)
         ELSE IF payload \in schema.accepts
           THEN Verdict(TRUE, Undef, cache \cup {schema.key})
           ELSE Verdict(FALSE, "ajv errors", cache \cup {schema.key})

(***************************************************************************)
(* Metrics recorder.                                                       *)
(***************************************************************************)
createMetrics ==
  [requests |-> [total |-> 0, byEndpoint |-> [e \in {} |-> 0]],
   tools |-> [n \in {} |-> 0],
   lastError |-> <<>>,
   recentErrors |-> <<>>]

\* recorded is a history of the model, not a field of the program: every
\* duration recordToolCall was given for the tool, in call order
NewToolMetrics ==
  [calls |-> 0, totalMs |-> 0, lastMs |-> -1, avgMs |-> -1, p95Ms |-> -1,
   lastCallAt |-> -1, lastError |-> <<>>, lastErrorAt |-> -1, samples |-> <<>>,
   recorded |-> <<>>]

ensureToolMetrics(metrics, toolName) ==
  IF toolName \in DOMAIN metrics.tools THEN metrics
  ELSE [metrics EXCEPT !.tools =
          [n \in DOMAIN metrics.tools \cup {toolName} |->
             IF n = toolName THEN NewToolMetrics ELSE metrics.tools[n]]]

recordEndpoint(metrics, pathname) ==
  LET by == metrics.requests.byEndpoint
      old == IF pathname \in DOMAIN by THEN by[pathname] ELSE 0
  IN [metrics EXCEPT !.requests =
        [total |-> metrics.requests.total + 1,
         byEndpoint |-> [e \in DOMAIN by \cup {pathname} |->
                           IF e = pathname THEN old + 1 ELSE by[e]]]]

\* recentErrors.unshift(entry), cut to the newest MAX_RECENT_ERRORS
recordError(metrics, message, tool, now) ==
  LET entry == [message |-> message, tool |-> tool, at |-> now]
      all == <<entry>> \o metrics.recentErrors
  IN [metrics EXCEPT !.lastError = <<entry>>,
                     !.recentErrors =
                        IF Len(all) > MAX_RECENT_ERRORS
                          THEN SubSeq(all, 1, MAX_RECENT_ERRORS) ELSE all]

\* sorted[max(0, ceil(length * p) - 1)] for p = 0.95
percentile(values) ==
  IF Len(values) = 0 THEN -1
  ELSE LET n == Len(values)
           rank == IF (95 * n) % 100 = 0 THEN (95 * n) \div 100
                   ELSE (95 * n) \div 100 + 1
           Below(v) == Cardinality({i \in 1..n : values[i] < v})
           UpTo(v) == Cardinality({i \in 1..n : values[i] <= v})
       IN CHOOSE v \in {values[i] : i \in 1..n} : Below(v) < rank /\ rank <= UpTo(v)

\* faulty variant: a full window drops the new sample, not the oldest
PushSampleDropNewest(samples, durationMs) ==
  IF Len(samples) >= MAX_LATENCY_SAMPLES THEN samples
  ELSE Append(samples, durationMs)

\* samples.push(durationMs), then samples.shift() when the window is over
\* its capacity
PushSample(samples, durationMs) ==
  IF Len(Append(samples, durationMs)) > MAX_LATENCY_SAMPLES
    THEN Tail(Append(samples, durationMs))
    ELSE Append(samples, durationMs)

\* errorMessage = <<>> stands for a call without the optional argument
recordToolCall(metrics, toolName, durationMs, errorMessage, now) ==
  LET m1 == ensureToolMetrics(metrics, toolName)
      old == m1.tools[toolName]
      samples == PushSample(old.samples, durationMs)
      calls == old.calls + 1
      totalMs == old.totalMs + durationMs
      counted == [old EXCEPT !.calls = calls, !.totalMs = totalMs,
                             !.lastMs = durationMs, !.lastCallAt = now,
                             !.samples = samples,
                             !.recorded = Append(old.recorded, durationMs),
                             !.avgMs = (2 * totalMs + calls) \div (2 * calls),
                             !.p95Ms = percentile(samples)]
      m2 == [m1 EXCEPT !.tools[toolName] = counted]
  IN IF errorMessage # <<>>
       THEN LET m3 == recordError(m2, errorMessage, toolName, now)
            IN [m3 EXCEPT !.tools[toolName].lastError = errorMessage,
                          !.tools[toolName].lastErrorAt = now]
       ELSE m2

(***************************************************************************)
(* Responses.                                                              *)
(***************************************************************************)
NoData == [k |-> "none"]
NoResult == [k |-> "none"]
NoError == [code |-> 0, message |-> <<>>, data |-> NoData]
NoResponse ==
  [jsonrpc |-> Undef, id |-> Undef, has |-> {}, result |-> NoResult,
   error |-> NoError]

Success(id, result) ==
  [jsonrpc |-> "2.0", id |-> id, has |-> {"result"}, result |-> result,
   error |-> NoError]
Failure(id, code, message, data) ==
  [jsonrpc |-> "2.0", id |-> id, has |-> {"error"}, result |-> NoResult,
   error |-> [code |-> code, message |-> message, data |-> data]]

invalidRequest(id, message, code) == Failure(id, code, <<message>>, NoData)

\* faulty variant: the id is never echoed
IdDropped(id) == JNull

\* request.id ?? null
IdOrNull(id) == IF id = Undef \/ id = JNull THEN JNull ELSE id

\* faulty variant: only an absent id makes a notification
isNotificationAbsentOnly(request) == request.id = Undef

\* request.id === undefined || request.id === null
isNotification(request) == request.id = Undef \/ request.id = JNull

\* asRecord(request.params) ?? {}
ParamsRecord(request) ==
  IF request.params.k = "object" THEN request.params ELSE EmptyParams

\* typeof value === "string" ? value : undefined
StringOrUndef(value) == IF value = NotString \/ value = JNull THEN Undef ELSE value

(***************************************************************************)
(* Listings.                                                               *)
(***************************************************************************)
SchemaJSON(schema) ==
  IF schema.toJSONSchema THEN <<"toJSONSchema", schema.key>>
  ELSE IF schema.k = "undefined" THEN <<"object", "properties">>
  ELSE <<schema.key>>

normalizeToolList(tools) ==
  [i \in 1..Len(tools) |->
     [name |-> tools[i].name, title |-> tools[i].name,
      inputSchema |-> SchemaJSON(tools[i].inputSchema),
      outputSchema |->
        IF tools[i].outputSchemaSource # Undef
           /\ tools[i].outputSchemaSource # "default"
          THEN SchemaJSON(tools[i].outputSchema) ELSE <<>>]]

ResourceList(resources) ==
  [i \in 1..Len(resources) |->
     [uri |-> resourceUri(resources[i].name), name |-> resources[i].name,
      mimeType |-> resources[i].mediaType]]

PromptList(prompts) ==
  [i \in 1..Len(prompts) |->
     [name |-> prompts[i].name, arguments |-> prompts[i].inputs]]

(***************************************************************************)
(* What a tool module does when it is loaded and called: the input of a    *)
(* tools/call that the server does not control.  A handler rejects with an *)
(* Error that has a message (rejects), with an Error whose message is      *)
(* empty (rejects_empty) or with null or undefined (rejects_nullish).      *)
(***************************************************************************)
Beh(load, settle, output) == [load |-> load, settle |-> settle, output |-> output]
Behaviours ==
  {Beh("throws", "none", Undef), Beh("no_default", "none", Undef),
   Beh("not_async", "none", Undef), Beh("async", "rejects", Undef),
   Beh("async", "rejects_empty", Undef), Beh("async", "rejects_nullish", Undef),
   Beh("async", "never", Undef)}
  \cup {Beh("async", "resolves", o) : o \in OutputValues}

\* a timeout value: a finite number of milliseconds or Infinity
Finite(ms) == [finite |-> TRUE, ms |-> ms]
Infinity == [finite |-> FALSE, ms |-> 0]

\* faulty variant: the timer is never armed
withTimeoutUnarmed(settle, timeoutMs) ==
  IF settle \in {"never", "unsettled"} THEN "pending" ELSE settle

\* withTimeout: what awaiting the raced promise gives; unsettled: neither
\* the handler nor the timer has settled so far
withTimeout(settle, timeoutMs) ==
  IF settle = "unsettled" THEN "pending"
  ELSE IF ~timeoutMs.finite \/ timeoutMs.ms <= 0
    THEN IF settle = "never" THEN "pending" ELSE settle
  ELSE IF settle = "never" THEN "timeout" ELSE settle

(***************************************************************************)
(* handleSingle.  srv is the server as the handler finds it (descriptor    *)
(* tables, metrics, schema cache, the files on disk, the timeout, the      *)
(* manifest and the clock); beh and elapsed are what the tool module and   *)
(* Date.now() supply.  The result says how the call ended: with a return   *)
(* value ({response, notification}), with an exception (threw) or never    *)
(* (pending), and what it left behind.                                     *)
(***************************************************************************)
Outcome(end, hasResponse, response, notification, metrics, cache, label, invoked) ==
  [end |-> end, hasResponse |-> hasResponse, response |-> response,
   notification |-> notification, metrics |-> metrics, cache |-> cache,
   label |-> label, invoked |-> invoked]

Return(response, notification, srv, label) ==
  Outcome("return", TRUE, response, notification, srv.metrics,
          srv.schemaCache, label, <<>>)
Throw(srv, label) ==
  Outcome("throw", FALSE, NoResponse, FALSE, srv.metrics, srv.schemaCache,
          label, <<>>)

ToolText(output) ==
  IF output = "text" THEN <<"text">>
  ELSE IF output = Undef \/ output = JNull THEN <<"json", "{}">>
  ELSE <<"json", output>>

ToolResult(text, isError, structuredContent) ==
  [k |-> "tool", content |-> <<[type |-> "text", text |-> text]>>,
   isError |-> isError, structuredContent |-> structuredContent]

\* args ?? {}
CallArgsOf(request) ==
  IF ParamsRecord(request).arguments \in {Undef, JNull} THEN "{}"
  ELSE ParamsRecord(request).arguments

\* a return of the tools/call case after recordToolCall; errorText = <<>>
\* stands for a call recorded without error
Done(request, srv, elapsed, toolName, response, errorText, cache, invoked) ==
  Outcome("return", TRUE, response, isNotification(request),
          recordToolCall(srv.metrics, toolName, elapsed, errorText, srv.now),
          cache, "tools/call", invoked)

\* the catch block of the tools/call case
Caught(request, srv, elapsed, toolName, message, cache, invoked) ==
  Done(request, srv, elapsed, toolName,
       Success(IdOrNull(request.id), ToolResult(message, TRUE, Undef)),
       message, cache, invoked)

\* text (location), as the error texts of the tools/call case are built
Located(text, tool) == text \o <<" (">> \o formatToolLocation(tool) \o <<")">>

\* structuredContent of a successful result
StructuredContent(tool, output) ==
  IF tool.outputSchemaSource # Undef /\ tool.outputSchemaSource # "default"
    THEN output
  ELSE IF output \in {"obj_good", "obj_bad", "array"} THEN output
  ELSE Undef

\* faulty variant: the output goes to the schema without the check for a
\* missing structured output
ToolsCallOutputUnguarded(request, srv, elapsed, tool, output, cache, outCheck) ==
  IF ~outCheck.ok
    THEN Done(request, srv, elapsed, tool.name,
              Success(IdOrNull(request.id),
                      ToolResult(Located(<<outCheck.error>>, tool), TRUE, Undef)),
              Located(<<outCheck.error>>, tool), outCheck.cache, <<tool.name>>)
  ELSE Done(request, srv, elapsed, tool.name,
            Success(IdOrNull(request.id),
                    ToolResult(ToolText(output), FALSE,
                               StructuredContent(tool, output))),
            <<>>, outCheck.cache, <<tool.name>>)

\* the tools/call case once the handler has returned output; cache is the
\* schema cache before the output is checked, outCheck the verdict on it
ToolsCallOutput(request, srv, elapsed, tool, output, cache, outCheck) ==
  IF tool.outputSchemaSource # Undef /\ tool.outputSchemaSource # "default"
     /\ output = Undef
    THEN Done(request, srv, elapsed, tool.name,
              Success(IdOrNull(request.id),
                      ToolResult(Located(<<"structured output required for ",
                                           tool.name>>, tool), TRUE, Undef)),
              Located(<<"structured output required for ", tool.name>>, tool),
              cache, <<tool.name>>)
  ELSE IF ~outCheck.ok
    THEN Done(request, srv, elapsed, tool.name,
              Success(IdOrNull(request.id),
                      ToolResult(Located(<<outCheck.error>>, tool), TRUE, Undef)),
              Located(<<outCheck.error>>, tool), outCheck.cache, <<tool.name>>)
  ELSE Done(request, srv, elapsed, tool.name,
            Success(IdOrNull(request.id),
                    ToolResult(ToolText(output), FALSE,
                               StructuredContent(tool, output))),
            <<>>, outCheck.cache, <<tool.name>>)

\* validateSchema(tool.outputSchema, output) when the tool has an output
\* schema
OutputCheck(tool, output, cache) ==
  IF tool.outputSchema.k # "undefined"
    THEN validateSchema(tool.outputSchema, output, cache)
    ELSE Verdict(TRUE, Undef, cache)

\* the answer to a module without a callable default export
HandlerMissing(id) ==
  invalidRequest(id, "tool handler not found", METHOD_NOT_FOUND)

\* faulty variant: one answer for both breaches of the handler contract
HandlerNotAsyncAsMissing(id) == HandlerMissing(id)

\* the answer to a default export that is no async function
HandlerNotAsync(id) ==
  invalidRequest(id, "tool handler must be async", METHOD_NOT_FOUND)

\* the tools/call case once the input has passed: load, check, invoke
ToolsCallInvoke(request, srv, beh, elapsed, tool, cache, awaited) ==
  IF beh.load = "throws"
    THEN Caught(request, srv, elapsed, tool.name, <<"import failed">>, cache, <<>>)
  ELSE IF beh.load = "no_default"
    THEN Done(request, srv, elapsed, tool.name,
              HandlerMissing(IdOrNull(request.id)),
              <<"handler missing">>, cache, <<>>)
  ELSE IF beh.load = "not_async"
    THEN Done(request, srv, elapsed, tool.name,
              HandlerNotAsync(IdOrNull(request.id)),
              Located(<<"tool handler must be async">>, tool), cache, <<>>)
  ELSE IF awaited = "pending"
    THEN Outcome("pending", FALSE, NoResponse, isNotification(request),
                 srv.metrics, cache, "tools/call", <<tool.name>>)
  ELSE IF awaited = "timeout"
    THEN Caught(request, srv, elapsed, tool.name,
                <<tool.name, " timed out after ",
                  ToString(srv.toolTimeoutMs.ms), "ms">>,
                cache, <<tool.name>>)
  ELSE IF awaited = "rejects"
    THEN Caught(request, srv, elapsed, tool.name, <<"handler error">>, cache,
                <<tool.name>>)
  ELSE IF awaited = "rejects_empty"
    THEN Caught(request, srv, elapsed, tool.name, <<"tool error">>, cache,
                <<tool.name>>)
  ELSE IF awaited = "rejects_nullish"
    THEN Outcome("throw", FALSE, NoResponse, FALSE, srv.metrics, cache,
                 "tools/call", <<tool.name>>)
  ELSE ToolsCallOutput(request, srv, elapsed, tool, beh.output, cache,
                       OutputCheck(tool, beh.output, cache))

\* the tools/call case once the tool is found: inCheck is the verdict on
\* the arguments
ToolsCallTool(request, srv, beh, elapsed, tool, inCheck) ==
  IF ~inCheck.ok
    THEN Done(request, srv, elapsed, tool.name,
              invalidRequest(IdOrNull(request.id), "input validation failed",
                             INVALID_PARAMS),
              Located(<<inCheck.error>>, tool), inCheck.cache, <<>>)
  ELSE ToolsCallInvoke(request, srv, beh, elapsed, tool, inCheck.cache,
                       withTimeout(beh.settle, srv.toolTimeoutMs))

\* the tools/call case for the name given; found is the index of the tool
ToolsCallNamed(request, srv, beh, elapsed, toolName, found) ==
  IF toolName = Undef \/ toolName = ""
    THEN Outcome("return", TRUE,
                 invalidRequest(IdOrNull(request.id), "invalid params",
                                INVALID_PARAMS),
                 isNotification(request),
                 recordError(srv.metrics, <<"invalid params">>, Undef, srv.now),
                 srv.schemaCache, "tools/call", <<>>)
  ELSE IF found = 0
    THEN Outcome("return", TRUE,
                 invalidRequest(IdOrNull(request.id), "unknown tool",
                                INVALID_PARAMS),
                 isNotification(request),
                 recordError(srv.metrics, <<"unknown tool ", toolName>>,
                             toolName, srv.now),
                 srv.schemaCache, "tools/call", <<>>)
  ELSE ToolsCallTool(request, srv, beh, elapsed, srv.tools[found],
                     IF srv.tools[found].inputSchema.k # "undefined"
                       THEN validateSchema(srv.tools[found].inputSchema,
                                           CallArgsOf(request), srv.schemaCache)
                       ELSE Verdict(TRUE, Undef, srv.schemaCache))

\* tools.find((item) => item.name === toolName)
FindTool(tools, toolName) ==
  FindIndex([i \in 1..Len(tools) |-> tools[i].name = toolName])

\* the tools/call case
ToolsCall(request, srv, beh, elapsed) ==
  ToolsCallNamed(request, srv, beh, elapsed,
                 StringOrUndef(ParamsRecord(request).name),
                 FindTool(srv.tools, StringOrUndef(ParamsRecord(request).name)))

\* the protocolVersion that initialize reports
DEFAULT_PROTOCOL_VERSION == "2025-06-18"
\* faulty variant: the override of the manifest is preferred to the version
\* the client asks for
NegotiatedVersionManifestFirst(request, srv) ==
  LET params == request.params
      requestedVersion ==
        IF params.k = "object" THEN StringOrUndef(params.protocolVersion)
        ELSE Undef
  IN IF srv.manifest.protocolVersion # Undef
       THEN srv.manifest.protocolVersion
     ELSE IF requestedVersion # Undef /\ requestedVersion # ""
       THEN requestedVersion
     ELSE DEFAULT_PROTOCOL_VERSION

NegotiatedVersion(request, srv) ==
  LET params == request.params
      requestedVersion ==
        IF params.k = "object" THEN StringOrUndef(params.protocolVersion)
        ELSE Undef
  IN IF requestedVersion # Undef /\ requestedVersion # ""
       THEN requestedVersion
     ELSE IF srv.manifest.protocolVersion # Undef
       THEN srv.manifest.protocolVersion
     ELSE DEFAULT_PROTOCOL_VERSION

InitializeResult(request, srv) ==
  [k |-> "initialize",
   protocolVersion |-> NegotiatedVersion(request, srv),
   capabilities |-> {"tools", "resources", "prompts", "logging"},
   serverInfo |-> [name |-> srv.manifest.name, version |-> srv.manifest.version],
   tools |-> normalizeToolList(srv.tools),
   resources |-> ResourceList(srv.resources),
   prompts |-> PromptList(srv.prompts)]

\* the resources/read case
ResourcesRead(request, srv) ==
  LET id == IdOrNull(request.id)
      notification == isNotification(request)
      label == "resources/read"
      uri == ParamsRecord(request).uri
      Addressed(item) == Str(resourceUri(item.name)) = uri \/ Str(<<item.file>>) = uri
      found == FindIndex([i \in 1..Len(srv.resources) |-> Addressed(srv.resources[i])])
  IN IF uri.k # "string" \/ uri.s = <<>>
       THEN Return(invalidRequest(id, "invalid params", INVALID_PARAMS),
                   notification, srv, label)
     ELSE IF found = 0
       THEN Return(invalidRequest(id, "resource not found", METHOD_NOT_FOUND),
                   notification, srv, label)
     ELSE IF srv.resources[found].file \notin srv.files
       THEN Throw(srv, label)
     ELSE Return(Success(id,
                   [k |-> "contents",
                    uri |-> resourceUri(srv.resources[found].name),
                    mimeType |-> srv.resources[found].mediaType,
                    text |-> <<"content of ", srv.resources[found].file>>]),
                 notification, srv, label)

\* the prompts/get case
PromptsGet(request, srv) ==
  LET id == IdOrNull(request.id)
      notification == isNotification(request)
      label == "prompts/get"
      name == StringOrUndef(ParamsRecord(request).name)
      found == FindIndex([i \in 1..Len(srv.prompts) |-> srv.prompts[i].name = name])
  IN IF name = Undef \/ name = ""
       THEN Return(invalidRequest(id, "invalid params", INVALID_PARAMS),
                   notification, srv, label)
     ELSE IF found = 0
       THEN Return(invalidRequest(id, "prompt not found", METHOD_NOT_FOUND),
                   notification, srv, label)
     ELSE IF srv.prompts[found].file \notin srv.files
       THEN Throw(srv, label)
     ELSE Return(Success(id,
                   [k |-> "prompt", name |-> srv.prompts[found].name,
                    arguments |-> srv.prompts[found].inputs,
                    role |-> "user",
                    text |-> <<"body of ", srv.prompts[found].file>>]),
                 notification, srv, label)

\* faulty variant: error.data reports the normalized method twice
MethodNotFoundNormalizedOnly(request, srv, method) ==
  LET shown == IF method.k = "undefined" THEN Str(<<"unknown">>) ELSE method
  IN Return(Failure(IdOrNull(request.id), METHOD_NOT_FOUND, <<"method not found">>,
                    [k |-> "method", method |-> shown, normalized |-> shown]),
            isNotification(request), srv, "default")

\* the default case: method not found
MethodNotFound(request, srv, method) ==
  LET rawMethod == IF request.method.k = "undefined" THEN Str(<<"unknown">>)
                   ELSE request.method
      normalizedMethod == IF method.k = "undefined" THEN rawMethod ELSE method
  IN Return(Failure(IdOrNull(request.id), METHOD_NOT_FOUND, <<"method not found">>,
                    [k |-> "method", method |-> rawMethod,
                     normalized |-> normalizedMethod]),
            isNotification(request), srv, "default")

Silent(srv, label) ==
  Outcome("return", FALSE, NoResponse, TRUE, srv.metrics, srv.schemaCache,
          label, <<>>)

handleSingle(request, srv, beh, elapsed) ==
  IF request.t = "null" THEN Throw(srv, "none")
  ELSE IF request.jsonrpc # "2.0"
    THEN Return(invalidRequest(IdOrNull(request.id), "invalid request",
                               INVALID_REQUEST),
                FALSE, srv, "none")
  ELSE IF normalizeMethodThrows(request.method) THEN Throw(srv, "none")
  ELSE
  LET method == normalizeMethod(request.method)
      id == IdOrNull(request.id)
      notification == isNotification(request)
      Empty(label) == Return(Success(id, [k |-> "empty"]), notification, srv, label)
  IN
  CASE method = M1("initialize") ->
         Return(Success(id, InitializeResult(request, srv)), notification, srv,
                "initialize")
    [] method = M2("notifications", "initialized") ->
         Silent(srv, "notifications/initialized")
    [] method = M1("ping") -> Empty("ping")
    [] method = M2("tools", "list") ->
         Return(Success(id, [k |-> "tools",
                             tools |-> normalizeToolList(srv.tools)]),
                notification, srv, "tools/list")
    [] method = M2("tools", "call") -> ToolsCall(request, srv, beh, elapsed)
    [] method = M2("resources", "list") ->
         Return(Success(id, [k |-> "resources",
                             resources |-> ResourceList(srv.resources)]),
                notification, srv, "resources/list")
    [] method = M2("resources", "read") -> ResourcesRead(request, srv)
    [] method = M2("resources", "subscribe") -> Empty("resources/subscribe")
    [] method = M2("resources", "unsubscribe") -> Empty("resources/unsubscribe")
    [] method = M2("prompts", "list") ->
         Return(Success(id, [k |-> "prompts",
                             prompts |-> PromptList(srv.prompts)]),
                notification, srv, "prompts/list")
    [] method = M2("prompts", "get") -> PromptsGet(request, srv)
    [] method = M2("logging", "setLevel") -> Empty("logging/setLevel")
    [] method = M2("notifications", "cancelled") ->
         Silent(srv, "notifications/cancelled")
    [] method = M2("notifications", "canceled") ->
         Silent(srv, "notifications/canceled")
    [] OTHER -> MethodNotFound(request, srv, method)

(***************************************************************************)
(* handleRequest (processRequest) and handleStream.                        *)
(***************************************************************************)
After(srv, out) ==
  [srv EXCEPT !.metrics = out.metrics, !.schemaCache = out.cache]

Labels(out) == IF out.label = "none" THEN <<>> ELSE <<out.label>>

Answer(kind, response, responses, srv, labels, invoked) ==
  [kind |-> kind, response |-> response, responses |-> responses,
   metrics |-> srv.metrics, cache |-> srv.schemaCache,
   labels |-> labels, invoked |-> invoked]

\* faulty variant: the parse error built without its code, so that the
\* default of invalidRequest applies
ParseErrorDefaultCode == invalidRequest(JNull, "parse error", INVALID_REQUEST)

\* invalidRequest(null, "parse error", -32700)
ParseError == invalidRequest(JNull, "parse error", PARSE_ERROR)

\* faulty variant: the collected responses returned as they are
BatchResultAsCollected(responses, srv, labels, invoked) ==
  Answer("batch", NoResponse, responses, srv, labels, invoked)

\* responses.length > 0 ? responses : null
BatchResult(responses, srv, labels, invoked) ==
  IF Len(responses) > 0
    THEN Answer("batch", NoResponse, responses, srv, labels, invoked)
    ELSE Answer("null", NoResponse, <<>>, srv, labels, invoked)

\* the loop over the entries of a batch, from entry i on; BatchEntry is
\* the body of the loop for the outcome of handleSingle on entry i
RECURSIVE BatchLoop(_, _, _, _, _, _, _, _)
RECURSIVE BatchEntry(_, _, _, _, _, _, _, _, _)
\* faulty variant: the loop goes on to the next entry without waiting for an
\* entry that has not returned
BatchEntryNotAwaited(batch, i, srv, beh, elapsed, responses, labels, invoked, out) ==
  BatchLoop(batch, i + 1, After(srv, out), beh, elapsed,
            IF out.end = "return" /\ ~out.notification /\ out.hasResponse
              THEN Append(responses, out.response) ELSE responses,
            labels \o Labels(out), invoked \o out.invoked)

BatchEntry(batch, i, srv, beh, elapsed, responses, labels, invoked, out) ==
  IF out.end # "return"
    THEN Answer(out.end, NoResponse, <<>>, After(srv, out), labels \o Labels(out),
                invoked \o out.invoked)
  ELSE BatchLoop(batch, i + 1, After(srv, out), beh, elapsed,
                 IF ~out.notification /\ out.hasResponse
                   THEN Append(responses, out.response) ELSE responses,
                 labels \o Labels(out), invoked \o out.invoked)

BatchLoop(batch, i, srv, beh, elapsed, responses, labels, invoked) ==
  IF i > Len(batch) THEN BatchResult(responses, srv, labels, invoked)
  ELSE BatchEntry(batch, i, srv, beh, elapsed, responses, labels, invoked,
                  handleSingle(batch[i], srv, beh, elapsed))

\* the end of handleRequest for a single message: out is the outcome of
\* handleSingle
SingleResult(srv, out) ==
  IF out.end # "return"
    THEN Answer(out.end, NoResponse, <<>>, After(srv, out), Labels(out),
                out.invoked)
  ELSE IF out.notification
    THEN Answer("null", NoResponse, <<>>, After(srv, out), Labels(out),
                out.invoked)
  ELSE IF out.hasResponse
    THEN Answer("response", out.response, <<>>, After(srv, out), Labels(out),
                out.invoked)
  ELSE Answer("undefined", NoResponse, <<>>, After(srv, out), Labels(out),
              out.invoked)

\* handleRequest after JSON.parse(raw)
handleParsed(raw, parsed, srv, beh, elapsed) ==
  IF ~parsed.ok THEN Answer("response", ParseError, <<>>, srv, <<>>, <<>>)
  ELSE IF StartsWith(Trim(raw), "[")
    THEN BatchLoop(parsed.v.elems, 1, srv, beh, elapsed, <<>>, <<>>, <<>>)
  ELSE SingleResult(srv, handleSingle(parsed.v, srv, beh, elapsed))

handleRequest(raw, srv, beh, elapsed) ==
  handleParsed(raw, JSONparse(raw), srv, beh, elapsed)

Streamed(end, frames, srv, labels, invoked) ==
  [end |-> end, frames |-> frames, metrics |-> srv.metrics,
   cache |-> srv.schemaCache, labels |-> labels, invoked |-> invoked]

\* a frame records the payload written and the message it answers
Frame(payload, of) == [payload |-> payload, of |-> of]

\* the loop over the bodies of a stream, from body i on; StreamBody is the
\* body of the loop after JSON.parse, StreamEntry after handleSingle
RECURSIVE StreamLoop(_, _, _, _, _, _, _, _)
RECURSIVE StreamBody(_, _, _, _, _, _, _, _, _)
RECURSIVE StreamEntry(_, _, _, _, _, _, _, _, _, _)
StreamEntry(bodies, i, srv, beh, elapsed, frames, labels, invoked, parsed, out) ==
  IF out.end # "return"
    THEN Streamed(out.end, frames, After(srv, out), labels \o Labels(out),
                  invoked \o out.invoked)
  ELSE StreamLoop(bodies, i + 1, After(srv, out), beh, elapsed,
                  IF out.hasResponse
                    THEN Append(frames,
                                Frame(out.response, [ok |-> TRUE, v |-> parsed.v]))
                    ELSE frames,
                  labels \o Labels(out), invoked \o out.invoked)

StreamBody(bodies, i, srv, beh, elapsed, frames, labels, invoked, parsed) ==
  IF ~parsed.ok
    THEN StreamLoop(bodies, i + 1, srv, beh, elapsed,
                    Append(frames,
                           Frame(ParseError, [ok |-> FALSE, v |-> JNullValue])),
                    labels, invoked)
  ELSE StreamEntry(bodies, i, srv, beh, elapsed, frames, labels, invoked, parsed,
                   handleSingle(parsed.v, srv, beh, elapsed))

StreamLoop(bodies, i, srv, beh, elapsed, frames, labels, invoked) ==
  IF i > Len(bodies) THEN Streamed("return", frames, srv, labels, invoked)
  ELSE StreamBody(bodies, i, srv, beh, elapsed, frames, labels, invoked,
                  JSONparse(bodies[i]))

\* handleStream after splitJsonRpcRequests(raw)
handleBodies(bodies, srv, beh, elapsed) ==
  IF Len(bodies) = 0
    THEN Streamed("return",
                  <<Frame(ParseError, [ok |-> FALSE, v |-> JNullValue])>>,
                  srv, <<>>, <<>>)
  ELSE StreamLoop(bodies, 1, srv, beh, elapsed, <<>>, <<>>, <<>>)

handleStream(raw, srv, beh, elapsed) ==
  handleBodies(splitJsonRpcRequests(raw), srv, beh, elapsed)

(***************************************************************************)
(* The server.  State of createServerFromManifest's closure, of the module *)
(* (schemaCache) and of its surroundings (environment variables, files).   *)
(***************************************************************************)
VARIABLES
  config,        \* manifest, environment and context module of this process
  initialized,   \* init() has run
  tools,         \* descriptor tables
  resources,
  prompts,
  toolTimeoutMs,
  metrics,
  schemaCache,   \* keys of the JSON Schemas compiled so far
  files,         \* resource and prompt documents present on disk
  listening,     \* "idle", "listening", or "crashed" after an unhandled rejection
  served,        \* exchanges performed so far; the clock of the timestamps
  last,          \* the latest exchange: what was sent and what came of it
  inflight,      \* the tools/call requests whose handler is being awaited
  running,       \* the request whose code holds the thread ("idle": none)
  handlers,      \* the tool handlers started: awaited, abandoned, settled
  inits,         \* the init() calls that have not returned yet
  subject,       \* the text handed to the function under study
  value,         \* what that function returned for it
  dev            \* the dev command: its child processes, watcher and timer

\* no function is under study
NoSubject == <<>>

\* no debounce timer of the watcher is pending
NoTimer == "null"

\* the dev command has not been run
NoDev ==
  [phase |-> "off", runtime |-> "node", watchEnabled |-> FALSE, child |-> 0,
   started |-> FALSE, lastChange |-> "undefined", timeout |-> NoTimer,
   closeWatcher |-> FALSE, processes |-> <<>>]

vars ==
  <<config, initialized, tools, resources, prompts, toolTimeoutMs, metrics,
    schemaCache, files, listening, served, last, inflight, running,
    handlers, inits, subject, value, dev>>

Manifest(name, version, protocolVersion, methods) ==
  [name |-> name, version |-> version, protocolVersion |-> protocolVersion,
   methods |-> methods]

\* mcp.methods toggles of the manifest
OptionalMethodToggles ==
  {"resourcesTemplatesList", "completionComplete", "notificationsComplete"}

Configs ==
  {[manifest |-> Manifest("app", "1.0.0", Undef, {}),
    DZX_TOOL_TIMEOUT_MS |-> Undef, hasContext |-> FALSE],
   [manifest |-> Manifest("app", "1.0.0", "2025-11-25", OptionalMethodToggles),
    DZX_TOOL_TIMEOUT_MS |-> "-5", hasContext |-> TRUE],
   [manifest |-> Manifest("app", "1.0.0", Undef, {}),
    DZX_TOOL_TIMEOUT_MS |-> "250", hasContext |-> FALSE]}

\* Number(text) for the texts an environment variable is given here
NumberOf(text) ==
  CASE text = "0" -> [nan |-> FALSE, value |-> Finite(0)]
    [] text = "-5" -> [nan |-> FALSE, value |-> Finite(-5)]
    [] text = "250" -> [nan |-> FALSE, value |-> Finite(250)]
    [] text = "Infinity" -> [nan |-> FALSE, value |-> Infinity]
    [] OTHER -> [nan |-> TRUE, value |-> Finite(0)]

\* Number(process.env.DZX_TOOL_TIMEOUT_MS ?? DEFAULT) || DEFAULT
ResolveTimeout(text) ==
  IF text = Undef THEN Finite(DEFAULT_TOOL_TIMEOUT_MS)
  ELSE LET n == NumberOf(text) IN
       IF n.nan \/ n.value = Finite(0) THEN Finite(DEFAULT_TOOL_TIMEOUT_MS)
       ELSE n.value

\* the server as a handler finds it
Server ==
  [tools |-> tools, resources |-> resources, prompts |-> prompts,
   metrics |-> metrics, schemaCache |-> schemaCache, files |-> files,
   toolTimeoutMs |-> toolTimeoutMs, manifest |-> config.manifest,
   now |-> served]

Exchange(op, route, request, pre, kind, response, responses, frames, labels, invoked, status) ==
  [op |-> op, route |-> route, request |-> request, pre |-> pre, kind |-> kind,
   response |-> response, responses |-> responses, frames |-> frames,
   labels |-> labels, invoked |-> invoked, status |-> status]

\* what a client sends: the body, the transport and what the tool will do
Sent(raw, beh, elapsed) == [raw |-> raw, beh |-> beh, elapsed |-> elapsed]
Quiet == Beh("async", "resolves", "obj_good")

Route(verb, path) == [verb |-> verb, path |-> path]
NoRoute == Route("none", <<>>)

NoExchange ==
  Exchange("none", NoRoute, Sent(<<>>, Quiet, 0), [now |-> 0], "none", NoResponse,
           <<>>, <<>>, <<>>, <<>>, 0)

\* the server as createServerFromManifest leaves it
Constructed ==
  /\ config \in Configs
  /\ initialized = FALSE
  /\ tools = <<>>
  /\ resources = <<>>
  /\ prompts = <<>>
  /\ toolTimeoutMs = Finite(DEFAULT_TOOL_TIMEOUT_MS)
  /\ metrics = createMetrics
  /\ schemaCache = {}
  /\ files = AllFiles
  /\ listening = "idle"
  /\ served = 0
  /\ last = NoExchange
  /\ inflight = <<>>
  /\ running = "idle"
  /\ handlers = <<>>
  /\ inits = <<>>
  /\ dev = NoDev

Init ==
  /\ Constructed
  /\ subject = NoSubject
  /\ value = NoSubject

\* faulty variant: init() creates no metrics entry
EnsureNone(m, table, i) == m

\* for (const tool of tools) ensureToolMetrics(metrics, tool.name)
RECURSIVE EnsureAll(_, _, _)
EnsureAll(m, table, i) ==
  IF i > Len(table) THEN m
  ELSE EnsureAll(ensureToolMetrics(m, table[i].name), table, i + 1)

\* the effect of init() on a server that is not initialized
InitEffect ==
  /\ toolTimeoutMs' = ResolveTimeout(config.DZX_TOOL_TIMEOUT_MS)
  /\ tools' = ToolTable
  /\ resources' = discoverResources(files)
  /\ prompts' = discoverPrompts(files)
  /\ metrics' = EnsureAll(metrics, ToolTable, 1)
  /\ initialized' = TRUE

\* server.init(), as the test harness calls it
init ==
  /\ listening # "crashed"
  /\ served < MaxServed
  /\ ~initialized
  /\ InitEffect
  /\ UNCHANGED <<config, schemaCache, files, listening, served, last>>
  /\ UNCHANGED <<inflight, running, handlers, inits, subject, value, dev>>

\* server.start(): init() and listen
start ==
  /\ listening = "idle"
  /\ IF initialized
       THEN UNCHANGED <<toolTimeoutMs, tools, resources, prompts, metrics,
                        initialized>>
       ELSE InitEffect
  /\ listening' = "listening"
  /\ UNCHANGED <<config, schemaCache, files, served, last>>
  /\ UNCHANGED <<inflight, running, handlers, inits, subject, value, dev>>

\* the documents that discovery has listed disappear from the disk; the
\* surroundings are followed as long as an exchange is still to come
RemoveFiles ==
  /\ served < MaxServed
  /\ initialized
  /\ files # {}
  /\ files' = {}
  /\ UNCHANGED <<config, initialized, tools, resources, prompts,
                 toolTimeoutMs, metrics, schemaCache, listening, served, last>>
  /\ UNCHANGED <<inflight, running, handlers, inits, subject, value, dev>>

(***************************************************************************)
(* What clients send.                                                      *)
(***************************************************************************)
Dotted(method) == Str(SplitJoin(method.s, "/", "."))

UnknownMethods ==
  {M2("foo", "bar"), Str(<<"foo", ".", "bar">>), Str(<<"a", ".", "b", "/", "c">>),
   M3("resources", "templates", "list"),
   Str(<<"resources", ".", "templates", ".", "list">>),
   M2("completion", "complete"), M2("notifications", "complete"),
   Str(<<>>), NoMethod}

DefaultParams(method) ==
  LET m == normalizeMethod(method) IN
  CASE m = M2("tools", "call") -> Params("smart-hello", "good", NoMethod, Undef)
    [] m = M2("resources", "read") ->
         Params(Undef, Undef, Str(resourceUri("guide")), Undef)
    [] m = M2("prompts", "get") -> Params("summarize", Undef, NoMethod, Undef)
    [] OTHER -> EmptyParams

Req(id, method) == Obj("2.0", id, method, DefaultParams(method))
ReqWith(id, method, params) == Obj("2.0", id, method, params)

ToolNames == {ToolTable[i].name : i \in 1..Len(ToolTable)}
CallOf(id, name, arguments) ==
  ReqWith(id, M2("tools", "call"), Params(name, arguments, NoMethod, Undef))

\* requests and notifications with the usual parameters
PlainMessages ==
  {Req("1", m) : m \in SupportedMethods \cup UnknownMethods}
  \cup {Req("1", Dotted(m)) : m \in SupportedMethods}
  \cup {Req(Undef, m) : m \in SupportedMethods \cup {M2("foo", "bar")}}
  \cup {Req(Undef, Dotted(m)) :
          m \in {M2("tools", "list"), M2("notifications", "initialized")}}
  \cup {Req(JNull, m) :
          m \in {M1("ping"), M2("resources", "read"), M2("foo", "bar")}}
  \cup {ReqWith("1", NumMethod, EmptyParams)}

\* requests whose parameters are missing or wrong
OddMessages ==
  {CallOf("1", "nosuch", "good"), CallOf("1", Undef, "good"),
   CallOf("1", NotString, "good"), CallOf("1", "", "good"),
   CallOf(Undef, "nosuch", "good"),
   ReqWith("1", M2("tools", "call"), ScalarParams),
   ReqWith("1", M2("tools", "call"), NoParams)}
  \cup {ReqWith("1", M2("resources", "read"), Params(Undef, Undef, u, Undef)) :
          u \in {Str(<<"resources/guide.md">>), Str(<<"resource://", "nosuch">>),
                 NoMethod, NumMethod, Str(<<>>)}}
  \cup {ReqWith("1", M2("prompts", "get"), Params(n, Undef, NoMethod, Undef)) :
          n \in {"nosuch", Undef, ""}}
  \cup {ReqWith("1", M1("initialize"), Params(Undef, Undef, NoMethod, v)) :
          v \in {"2024-11-05", "", NotString}}
  \cup {ReqWith(Undef, M2("prompts", "get"),
                Params("summarize", Undef, NoMethod, Undef))}

\* values that are no JSON-RPC 2.0 message
InvalidMessages ==
  {Obj("1.0", "1", M1("ping"), EmptyParams),
   Obj(Undef, "1", M1("ping"), EmptyParams),
   Obj("1.0", Undef, M1("ping"), EmptyParams),
   Obj(Undef, JNull, M2("tools", "list"), EmptyParams),
   Obj(Undef, Undef, M1("ping"), EmptyParams),
   EmptyObj, JNullValue, JNumber, JString}

\* calls that reach a tool: the tool module and the clock matter
Elapsed == 0..MaxElapsed
FewBehaviours == {Quiet, Beh("async", "never", Undef)}
BehavioursOf(name) == IF name = "smart-hello" THEN Behaviours ELSE FewBehaviours

\* the clock is varied for the calls whose handler answers at once
CallInputs(message, behaviours) ==
  {Sent(Stringify(message), b, 0) : b \in behaviours}
  \cup {Sent(Stringify(message), b, e) : b \in behaviours \cap {Quiet}, e \in Elapsed}

ToolInputs ==
  UNION {CallInputs(CallOf("1", n, "good"), BehavioursOf(n)) : n \in ToolNames}
  \cup UNION {CallInputs(CallOf("1", n, "bad"), {Quiet}) : n \in ToolNames}
  \cup CallInputs(CallOf("1", "smart-hello", JNull), {Quiet})
  \cup CallInputs(CallOf(Undef, "smart-hello", "bad"), {Quiet})
  \cup CallInputs(CallOf(Undef, "plain", "good"), FewBehaviours)
  \cup CallInputs(Req("1", Dotted(M2("tools", "call"))), FewBehaviours)

Ping(id) == Req(id, M1("ping"))

\* batches: arrays of messages and of other values
Batches ==
  {<<>>,
   <<Ping("1"), Ping(Undef), Req("2", M2("tools", "list"))>>,
   <<Ping(Undef), Req(JNull, M2("foo", "bar"))>>,
   <<Req(Undef, M2("notifications", "initialized"))>>,
   <<Req("1", M2("notifications", "initialized")), Ping("2")>>,
   <<Obj("1.0", Undef, M1("ping"), EmptyParams), Ping("1")>>,
   <<JNumber, EmptyObj>>,
   <<Ping("1"), JNullValue, Ping("2")>>,
   <<Arr(<<>>), Arr(<<Ping("1")>>)>>,
   <<Req("1", M2("resources", "read")), Ping("2")>>,
   <<Req(Undef, M2("resources", "read")), Req(Undef, M2("prompts", "get"))>>,
   <<Req("2", M2("foo", "bar")), Req("1", M2("prompts", "list"))>>}

BatchInputs ==
  {Sent(Stringify(Arr(b)), Quiet, 0) : b \in Batches}
  \cup CallInputs(Arr(<<CallOf("1", "plain", "good"), Ping(Undef),
                        CallOf("2", "joi-sum", "bad")>>), FewBehaviours)

\* bodies that are not one JSON text
Text(v) == Stringify(v)
BrokenBodies ==
  {<<Ch("{")>>, <<Ch("[")>>, <<Junk>>, <<Ch("{"), Members(Ping("1"))>>,
   <<Ch("["), Ch(",") , Ch("]")>>,
   <<Ch("[")>> \o Text(Ping("1")) \o <<Ch(","), Ch("]")>>,
   <<Ch("[")>> \o Text(Ping("1")) \o <<Ch("]"), Junk>>,
   Text(Ping("1")) \o <<Junk>>,
   Text(Ping("1")) \o Text(Ping("2")),
   <<Ch("\""), Ch("{")>>}

\* bodies with white space around the JSON text, and a bare string
SpacedBodies ==
  {<<WS>> \o Text(Ping("1")) \o <<WS>>,
   <<WS>> \o Text(Arr(<<Ping("1"), Ping(Undef)>>)),
   <<WS, Ch("[")>> \o Text(Ping(Undef)) \o <<WS, Ch("]"), WS>>,
   <<Ch("\""), Ch("{"), Ch("\\"), Ch("\""), Ch("\"")>>}

PlainBodies ==
  {Stringify(m) : m \in PlainMessages \cup OddMessages \cup InvalidMessages}
  \cup BrokenBodies \cup SpacedBodies

\* what processRequest and a POST without streaming are given
Inputs ==
  {Sent(raw, Quiet, 0) : raw \in PlainBodies} \cup ToolInputs \cup BatchInputs

\* what a streaming POST is given: several JSON texts one after another
\* a request written with one more member, "k", whose text is given
Noisy(v, text) ==
  <<Ch("{"), Members(v), Ch(","), Ch("\""), Ch("k"), Ch("\""), Ch(":"), Ch("\"")>>
    \o text \o <<Ch("\""), Ch("}")>>

StreamBodies ==
  {Text(Ping("1")) \o Text(Ping("2")),
   Noisy(Ping("1"), <<Ch("}"), Ch("{"), Ch("\\"), Ch("\""), Ch("]")>>)
     \o <<WS, WS>>
     \o Noisy(Req("2", M2("tools", "list")), <<Ch("["), Ch("\\"), Ch("\\")>>)
     \o Text(Ping("3")),
   <<WS>> \o Noisy(Ping("1"), <<Ch("\\"), Ch("\""), Ch("{"), Ch("[")>>)
     \o Noisy(Ping("2"), <<Ch("}")>>) \o <<WS>>,
   Text(Ping("1")) \o <<WS>> \o Text(Ping(Undef)) \o <<WS>>
     \o Text(Req("2", M2("tools", "list"))),
   Text(Ping(Undef)), Text(Ping(JNull)),
   Text(Req(Undef, M2("notifications", "initialized"))),
   Text(Req("1", M2("notifications", "initialized"))),
   Text(Req(Undef, M2("foo", "bar"))),
   Text(Req(Undef, M2("resources", "read"))) \o Text(Ping("1")),
   Text(Ping("1")) \o Text(Req("2", M2("resources", "read"))),
   Text(Obj(Undef, Undef, M1("ping"), EmptyParams)),
   Text(Obj("1.0", "1", M1("ping"), EmptyParams)),
   Text(Arr(<<Ping("1"), Ping(Undef), Ping("2")>>)),
   Text(Arr(<<>>)), Text(JNullValue), Text(JNumber),
   Text(Ping("1")) \o <<Junk>> \o Text(Ping("2")),
   <<Junk>>, <<Ch("{")>>, <<Ch("}")>>,
   <<Ch("{"), Junk, Ch("}")>> \o Text(Ping("1")),
   <<Ch("{"), Junk, Ch("}"), Ch("{"), Ch(","), Ch("}")>>,
   <<Ch("\""), Ch("{"), Ch("\"")>> \o Text(Ping("1")),
   <<Ch("\""), Ch("\\"), Ch("\""), Ch("{"), Ch("\"")>> \o Text(Ping("1")),
   <<Ch("\\"), Ch("{")>> \o Text(Ping("1")),
   Text(Ping("1")) \o <<Ch("{")>>,
   Text(Req("1", M1("initialize"))),
   Text(Req("1", Dotted(M2("tools", "list"))))}

StreamInputs ==
  {Sent(raw, Quiet, 0) : raw \in StreamBodies}
  \cup CallInputs(CallOf("1", "plain", "good"), FewBehaviours)
  \cup CallInputs(CallOf(Undef, "smart-hello", "good"), FewBehaviours)
  \cup {Sent(Text(CallOf(Undef, "plain", "good")) \o Text(Ping("1")), b, 0) :
          b \in FewBehaviours}

(***************************************************************************)
(* Exchanges.                                                              *)
(***************************************************************************)
\* what an answer of handleRequest leaves behind; over HTTP null is sent
\* as 202 and anything else as 200
Answered(op, route, in, pre, a) ==
  /\ metrics' = a.metrics
  /\ schemaCache' = a.cache
  /\ last' = Exchange(op, route, in, pre, a.kind, a.response, a.responses, <<>>,
                      a.labels, a.invoked,
                      IF op # "post" \/ a.kind \in {"throw", "pending"} THEN 0
                      ELSE IF a.kind = "null" THEN 202
                      ELSE 200)

\* what handleStream leaves behind
StreamAnswered(route, in, pre, a) ==
  /\ metrics' = a.metrics
  /\ schemaCache' = a.cache
  /\ last' = Exchange("stream", route, in, pre, a.end, NoResponse, <<>>, a.frames,
                      a.labels, a.invoked, IF a.end = "return" THEN 200 ELSE 0)

\* the request is counted before it is routed
Counted(path) == [Server EXCEPT !.metrics = recordEndpoint(metrics, path)]

\* server.processRequest(raw): handleRequest called in process
processRequest ==
  /\ listening # "crashed"
  /\ served < MaxServed
  /\ \E in \in Inputs :
       Answered("processRequest", NoRoute, in, Server,
                handleRequest(in.raw, Server, in.beh, in.elapsed))
  /\ served' = served + 1
  /\ UNCHANGED <<config, initialized, tools, resources, prompts,
                 toolTimeoutMs, files, listening>>
  /\ UNCHANGED <<inflight, running, handlers, inits, subject, value, dev>>

\* an exception that leaves the request listener is an unhandled rejection:
\* the runtime decides whether the process survives it
AfterListener(end) ==
  IF end = "throw" THEN listening' \in {"listening", "crashed"}
  ELSE listening' = "listening"

McpPath == <<"/mcp/", "app">>

\* the context factory throws: 500 before the request is counted or routed
contextFails ==
  /\ listening = "listening"
  /\ served < MaxServed
  /\ config.hasContext
  /\ \E path \in {McpPath, <<"/health">>} :
       last' = Exchange("context", Route("POST", path), Sent(<<>>, Quiet, 0),
                        Server, "none", NoResponse, <<>>, <<>>, <<>>, <<>>, 500)
  /\ served' = served + 1
  /\ UNCHANGED <<config, initialized, tools, resources, prompts,
                 toolTimeoutMs, metrics, schemaCache, files, listening>>
  /\ UNCHANGED <<inflight, running, handlers, inits, subject, value, dev>>

\* the status of a request that does not reach the dispatcher (0: it does)
RouteStatus(verb, path, raw) ==
  IF verb = "GET" /\ path \in {<<"/">>, <<"/health">>, <<"/status">>,
                               <<"/.well-known/oauth-authorization-server">>}
    THEN 200
  ELSE IF verb # "POST" THEN 405
  ELSE IF path[1] # "/mcp/" THEN 404
  ELSE IF Len(path) < 2 \/ path[2] # config.manifest.name THEN 404
  ELSE IF Trim(raw) = <<>> THEN 400
  ELSE 0

OtherRoutes ==
  {Route("GET", <<"/">>), Route("GET", <<"/health">>), Route("GET", <<"/status">>),
   Route("GET", <<"/.well-known/oauth-authorization-server">>),
   Route("GET", <<"/mcp/", "app">>), Route("PUT", <<"/health">>),
   Route("POST", <<"/health">>), Route("POST", <<"/mcp/">>),
   Route("POST", <<"/mcp/", "other">>), Route("POST", McpPath),
   Route("POST", <<"/mcp/", "app", "/">>)}

\* a request that is answered without the dispatcher
httpRoute ==
  /\ listening = "listening"
  /\ served < MaxServed
  /\ \E r \in OtherRoutes, raw \in {<<>>, <<WS>>} :
       /\ RouteStatus(r.verb, r.path, raw) # 0
       /\ metrics' = recordEndpoint(metrics, r.path)
       /\ last' = Exchange("route", r, Sent(raw, Quiet, 0), Server, "none",
                           NoResponse, <<>>, <<>>, <<>>, <<>>,
                           RouteStatus(r.verb, r.path, raw))
  /\ served' = served + 1
  /\ UNCHANGED <<config, initialized, tools, resources, prompts,
                 toolTimeoutMs, schemaCache, files, listening>>
  /\ UNCHANGED <<inflight, running, handlers, inits, subject, value, dev>>

\* POST /mcp/<name> without streaming: 202 for null, 200 with the JSON
httpPost ==
  /\ listening = "listening"
  /\ served < MaxServed
  /\ \E in \in Inputs :
       /\ RouteStatus("POST", McpPath, in.raw) = 0
       /\ Answered("post", Route("POST", McpPath), in, Counted(McpPath),
                   handleRequest(in.raw, Counted(McpPath), in.beh, in.elapsed))
  /\ AfterListener(last'.kind)
  /\ served' = served + 1
  /\ UNCHANGED <<config, initialized, tools, resources, prompts,
                 toolTimeoutMs, files>>
  /\ UNCHANGED <<inflight, running, handlers, inits, subject, value, dev>>

\* POST /mcp/<name> with ?stream=1 or Accept: text/event-stream
httpStream ==
  /\ listening = "listening"
  /\ served < MaxServed
  /\ \E in \in StreamInputs :
       /\ RouteStatus("POST", McpPath, in.raw) = 0
       /\ StreamAnswered(Route("POST", McpPath), in, Counted(McpPath),
                         handleStream(in.raw, Counted(McpPath), in.beh, in.elapsed))
  /\ AfterListener(last'.kind)
  /\ served' = served + 1
  /\ UNCHANGED <<config, initialized, tools, resources, prompts,
                 toolTimeoutMs, files>>
  /\ UNCHANGED <<inflight, running, handlers, inits, subject, value, dev>>

(***************************************************************************)
(* Specifications.  Spec: a server used in process through init() and      *)
(* processRequest(), as the tests use it.  SpecHttp: a started server.     *)
(***************************************************************************)
Next == init \/ processRequest \/ RemoveFiles

Spec == Init /\ [][Next]_vars

NextHttp ==
  start \/ httpRoute \/ contextFails \/ httpPost \/ httpStream \/ RemoveFiles

SpecHttp == Init /\ [][NextHttp]_vars

(***************************************************************************)
(* The latency window.  recordToolCall is followed on one tool of an       *)
(* initialized server, call after call: the first calls, which fill the    *)
(* window to one short of its capacity, succeed with durations 0, 1, 0, ...*)
(* and the calls after them take any duration and may fail.                *)
(***************************************************************************)
WindowTool == "plain"

\* the calls that fill the window to one short of its capacity
FirstCalls == MAX_LATENCY_SAMPLES - 1

\* the state init() leaves
InitWindow ==
  /\ config \in {c \in Configs : c.DZX_TOOL_TIMEOUT_MS = Undef}
  /\ initialized = TRUE
  /\ tools = ToolTable
  /\ resources = discoverResources(AllFiles)
  /\ prompts = discoverPrompts(AllFiles)
  /\ toolTimeoutMs = ResolveTimeout(config.DZX_TOOL_TIMEOUT_MS)
  /\ metrics = EnsureAll(createMetrics, ToolTable, 1)
  /\ schemaCache = {}
  /\ files = AllFiles
  /\ listening = "idle"
  /\ served = 0
  /\ last = NoExchange
  /\ inflight = <<>>
  /\ running = "idle"
  /\ handlers = <<>>
  /\ inits = <<>>
  /\ dev = NoDev
  /\ subject = NoSubject
  /\ value = NoSubject

\* one more call of the tool is recorded, as the tools/call case records it:
\* a duration, and an error text when the call failed
recordCall ==
  /\ served < FirstCalls + MaxRecorded
  /\ \E d \in IF served < FirstCalls THEN {served % 2} ELSE Elapsed,
        e \in IF served < FirstCalls THEN {<<>>} ELSE {<<>>, <<"handler error">>} :
       metrics' = recordToolCall(metrics, WindowTool, d, e, served)
  /\ served' = served + 1
  /\ UNCHANGED <<config, initialized, tools, resources, prompts, toolTimeoutMs,
                 schemaCache, files, listening, last>>
  /\ UNCHANGED <<inflight, running, handlers, inits, subject, value, dev>>

NextWindow == recordCall

SpecWindow == InitWindow /\ [][NextWindow]_vars

(***************************************************************************)
(* Requests in flight.  The listener is an async function: its code runs   *)
(* on the one thread of the process until it awaits the handler of a tool  *)
(* (await withTimeout(...)), and is resumed when the handler or the timer  *)
(* settles.  Each action is one such run; a tools/call that reaches its    *)
(* handler takes two, with other requests served in between.               *)
(***************************************************************************)
\* faulty variant: the handler is waited for without leaving the thread
AwaitingOnThread(conn) == conn

\* who holds the thread while the handler of request conn is awaited
Awaiting(conn) == "idle"

\* what the handlers of the calls in flight will do, left to themselves
SlowBehaviours ==
  {Beh("async", "resolves", "obj_good"), Beh("async", "rejects", Undef),
   Beh("async", "never", Undef)}

Unsettled(beh) == [beh EXCEPT !.settle = "unsettled"]

\* calls that reach the handler of a tool
SlowCalls ==
  {Sent(Stringify(CallOf("1", "plain", "good")), b, 0) : b \in SlowBehaviours}
  \cup {Sent(Stringify(CallOf("1", "smart-hello", "good")), Quiet, 0)}

\* requests that are answered in one run
QuickInputs ==
  {Sent(Stringify(m), Quiet, 0) :
     m \in {Ping("2"), Ping(Undef), Req("2", M2("foo", "bar")),
            CallOf("2", "plain", "good")}}

\* fn(callArgs, context) has been called for entry `entry` of the request
\* of connection conn: the promise it returned is awaited through withTimeout
Handler(conn, entry, beh) ==
  [conn |-> conn, entry |-> entry, beh |-> beh, state |-> "awaited"]

\* faulty variant: the race takes the value of the promise and leaves its
\* rejection to nobody
RaceReactionsOnFulfilled == {"onFulfilled"}

\* Promise.race([promise, timeout]) subscribes to each of its promises with
\* a reaction for either outcome; the reactions stay when the race has been
\* decided by the other promise, and do nothing then
RaceReactions == {"onFulfilled", "onRejected"}

\* the handlers once the await of connection conn has given b: the handler
\* has settled, or the timer has fired first and the handler is abandoned
AfterAwait(started, conn, b) ==
  [i \in 1..Len(started) |->
     IF started[i].conn = conn /\ started[i].state = "awaited"
       THEN [started[i] EXCEPT !.state = IF b.settle = "never" THEN "abandoned"
                                         ELSE "settled"]
       ELSE started[i]]

\* what a call leaves behind when its run stops at the await: a is what
\* handleRequest has done so far
Parked(in, a) ==
  /\ a.kind = "pending"
  /\ metrics' = a.metrics
  /\ schemaCache' = a.cache
  /\ inflight' = Append(inflight, [conn |-> ToString(served + 1),
                                   request |-> in, startedAt |-> served])

\* a tools/call arrives and runs up to the await on its handler
callArrives ==
  /\ listening = "listening"
  /\ running = "idle"
  /\ served < MaxArrivals
  /\ Len(inflight) < MaxInFlight
  /\ \E in \in SlowCalls :
       /\ Parked(in, handleRequest(in.raw, Counted(McpPath), Unsettled(in.beh), 0))
       /\ handlers' = Append(handlers, Handler(ToString(served + 1), 1, in.beh))
  /\ running' = Awaiting(ToString(served + 1))
  /\ served' = served + 1
  /\ UNCHANGED <<config, initialized, tools, resources, prompts,
                 toolTimeoutMs, files, listening, last, inits, subject, value,
                 dev>>

\* what the await of a call in flight may give: what the handler does, or
\* the timeout when the timer is armed
Settlements(beh) ==
  (IF beh.settle = "never" THEN {} ELSE {beh})
  \cup (IF toolTimeoutMs.finite /\ toolTimeoutMs.ms > 0
          THEN {Beh("async", "never", Undef)} ELSE {})

Without(s, k) == SubSeq(s, 1, k - 1) \o SubSeq(s, k + 1, Len(s))

\* the handler of a call in flight settles, or its timer fires: the call is
\* resumed and answered
handlerSettles ==
  /\ listening = "listening"
  /\ \E k \in 1..Len(inflight) :
       /\ running \in {"idle", inflight[k].conn}
       /\ \E b \in Settlements(inflight[k].request.beh), e \in {MaxElapsed} :
            /\ Answered("post", Route("POST", McpPath),
                     Sent(inflight[k].request.raw, b, e), Server,
                     handleRequest(inflight[k].request.raw, Server, b, e))
            /\ handlers' = AfterAwait(handlers, inflight[k].conn, b)
       /\ inflight' = Without(inflight, k)
  /\ running' = "idle"
  /\ UNCHANGED <<config, initialized, tools, resources, prompts,
                 toolTimeoutMs, files, listening, served, inits, subject,
                 value, dev>>

\* a handler abandoned by a timeout settles: the reactions of the race run.
\* The race is decided, so that they change nothing; a rejection nobody
\* subscribed to is an unhandled rejection
abandonedSettles ==
  /\ listening = "listening"
  /\ running = "idle"
  /\ \E i \in 1..Len(handlers) :
       /\ handlers[i].state = "abandoned"
       /\ handlers[i].beh.settle # "never"
       /\ handlers' = [handlers EXCEPT ![i].state = "late"]
       /\ IF /\ handlers[i].beh.settle \in {"rejects", "rejects_empty",
                                             "rejects_nullish"}
             /\ "onRejected" \notin RaceReactions
            THEN listening' \in {"listening", "crashed"}
            ELSE listening' = listening
  /\ UNCHANGED <<config, initialized, tools, resources, prompts,
                 toolTimeoutMs, metrics, schemaCache, files, served, last,
                 inflight, running, inits, subject, value, dev>>

\* a request arrives that is answered in one run
answerQuick ==
  /\ listening = "listening"
  /\ running = "idle"
  /\ served < MaxArrivals
  /\ \E in \in QuickInputs :
       Answered("post", Route("POST", McpPath), in, Counted(McpPath),
                handleRequest(in.raw, Counted(McpPath), in.beh, in.elapsed))
  /\ served' = served + 1
  /\ UNCHANGED <<config, initialized, tools, resources, prompts,
                 toolTimeoutMs, files, listening, inflight, running, handlers,
                 inits, subject, value, dev>>

NextInFlight ==
  start \/ callArrives \/ handlerSettles \/ answerQuick \/ abandonedSettles

\* the process starts with the timeout left at its default or disabled
InitInFlight == Init /\ config.DZX_TOOL_TIMEOUT_MS \in {Undef, "-5"}

SpecInFlight == InitInFlight /\ [][NextInFlight]_vars

(***************************************************************************)
(* Batches in flight.  The loop of handleRequest over a batch awaits        *)
(* handleSingle entry by entry: a run of the listener handles the entries   *)
(* up to the first tools/call that reaches its handler and stops at that    *)
(* await; when the handler settles, or its timer fires, the entry is        *)
(* answered and the run goes on with the entries after it.  Each entry has  *)
(* a handler behaviour of its own.                                          *)
(***************************************************************************)
\* faulty variant: the loop goes on without waiting for the entry
AwaitEntrySkipped(end) == IF end \in {"return", "pending"} THEN "next" ELSE "stop"

\* const {response, notification} = await handleSingle(item, context): the
\* loop stops at the await while the entry has not ended, leaves the
\* function when it throws and goes on to the next entry otherwise
AwaitEntry(end) ==
  IF end = "pending" THEN "park" ELSE IF end = "return" THEN "next" ELSE "stop"

\* a run of the batch loop: at is the entry it stops at (0: the loop has
\* ended), started the entries whose handler was called in the run, answer
\* what handleRequest has done and collected so far
BatchRunEnd(at, started, answer) == [at |-> at, started |-> started, answer |-> answer]

\* the run from entry i on; b is what the await of entry i gives (unsettled:
\* the handler is yet to be called); the entries after it are run afresh
RECURSIVE BatchRun(_, _, _, _, _, _, _, _, _, _)

\* entry i has run to out: the loop parks at its await, ends, or goes on
BatchStep(batch, behs, i, b, srv, elapsed, responses, labels, invoked, started, out) ==
  LET step == AwaitEntry(out.end)
      calls == IF out.end = "pending" THEN Append(started, i) ELSE started
      fresh == b.settle = "unsettled"
  IN IF step = "park"
       THEN BatchRunEnd(i, calls,
                        Answer("pending", NoResponse, responses, After(srv, out),
                               labels, invoked \o out.invoked))
     ELSE IF step = "stop"
       THEN BatchRunEnd(0, calls,
                        Answer(out.end, NoResponse, <<>>, After(srv, out),
                               labels \o Labels(out),
                               invoked \o (IF fresh THEN out.invoked ELSE <<>>)))
     ELSE BatchRun(batch, behs, i + 1,
                   IF i < Len(batch) THEN Unsettled(behs[i + 1]) ELSE Quiet,
                   After(srv, out), elapsed,
                   IF out.end = "return" /\ ~out.notification /\ out.hasResponse
                     THEN Append(responses, out.response) ELSE responses,
                   labels \o Labels(out),
                   invoked \o (IF fresh THEN out.invoked ELSE <<>>), calls)

BatchRun(batch, behs, i, b, srv, elapsed, responses, labels, invoked, started) ==
  IF i > Len(batch)
    THEN BatchRunEnd(0, started, BatchResult(responses, srv, labels, invoked))
    ELSE BatchStep(batch, behs, i, b, srv, elapsed, responses, labels, invoked,
                   started, handleSingle(batch[i], srv, b, elapsed))

\* the batches: two calls of plain, and a call, a ping and a call
SlowBatches ==
  {[entries |-> <<CallOf("1", "plain", "good"), CallOf("2", "plain", "good")>>,
    behs |-> <<b1, b2>>] : b1, b2 \in SlowBehaviours}
  \cup {[entries |-> <<CallOf("1", "plain", "good"), Ping("2"),
                       CallOf(Undef, "smart-hello", "good")>>,
         behs |-> <<b1, Quiet, b3>>] : b1, b3 \in SlowBehaviours}

\* the handlers a run has called, added to those started before
WithStarted(started, conn, behs, entries) ==
  started \o [n \in 1..Len(entries) |-> Handler(conn, entries[n], behs[entries[n]])]

\* the batch f as it waits in flight after a run
BatchParked(f, run) ==
  [f EXCEPT !.at = run.at, !.responses = run.answer.responses,
            !.labels = run.answer.labels, !.invoked = run.answer.invoked]

\* a run of the loop has stopped: the batch f (the k-th in flight, 0 when it
\* has just arrived) is parked at the entry it awaits, or it is answered
BatchSuspends(run, f, k, pre, awaited) ==
  /\ handlers' = WithStarted(awaited, f.conn, f.behs, run.started)
  /\ IF run.at # 0
       THEN /\ metrics' = run.answer.metrics
            /\ schemaCache' = run.answer.cache
            /\ inflight' = IF k = 0 THEN Append(inflight, BatchParked(f, run))
                           ELSE [inflight EXCEPT ![k] = BatchParked(f, run)]
            /\ last' = last
       ELSE /\ Answered("post", Route("POST", McpPath), f.request, pre,
                        run.answer)
            /\ inflight' = IF k = 0 THEN inflight ELSE Without(inflight, k)

\* a batch arrives and runs up to its first await
batchArrives ==
  /\ listening = "listening"
  /\ running = "idle"
  /\ served < MaxServed
  /\ Len(inflight) < MaxInFlight
  /\ \E in \in SlowBatches :
       LET f == [conn |-> ToString(served + 1),
                 request |-> Sent(Stringify(Arr(in.entries)), Quiet, 0),
                 startedAt |-> served, batch |-> in.entries, behs |-> in.behs,
                 at |-> 1, responses |-> <<>>, labels |-> <<>>,
                 invoked |-> <<>>]
       IN BatchSuspends(BatchRun(f.batch, f.behs, 1, Unsettled(f.behs[1]),
                                 Counted(McpPath), 0, <<>>, <<>>, <<>>, <<>>),
                        f, 0, Counted(McpPath), handlers)
  /\ running' = Awaiting(ToString(served + 1))
  /\ served' = served + 1
  /\ UNCHANGED <<config, initialized, tools, resources, prompts,
                 toolTimeoutMs, files, listening, inits, subject, value, dev>>

\* the handler awaited by a batch in flight settles, or its timer fires: the
\* entry is answered and the loop runs on, to its next await or to its end
entrySettles ==
  /\ listening = "listening"
  /\ \E k \in 1..Len(inflight) :
       /\ running \in {"idle", inflight[k].conn}
       /\ \E b \in Settlements(inflight[k].behs[inflight[k].at]) :
            LET f == inflight[k] IN
            BatchSuspends(BatchRun(f.batch, f.behs, f.at, b, Server, MaxElapsed,
                                   f.responses, f.labels, f.invoked, <<>>),
                          f, k, Server, AfterAwait(handlers, f.conn, b))
  /\ running' = "idle"
  /\ UNCHANGED <<config, initialized, tools, resources, prompts,
                 toolTimeoutMs, files, listening, served, inits, subject,
                 value, dev>>

NextBatchInFlight == start \/ batchArrives \/ entrySettles \/ abandonedSettles

SpecBatchInFlight == InitInFlight /\ [][NextBatchInFlight]_vars

(***************************************************************************)
(* Discovery step by step.  init() is an async function: discoverTools      *)
(* imports the tool modules one after the other and awaits each import, so  *)
(* that requests handed to processRequest, and further init() calls, run    *)
(* between two imports.  discoverTools collects the descriptors in an array *)
(* of its own; init() assigns the three tables when discoverTools has       *)
(* returned, and sets `initialized` after the context module is loaded.     *)
(***************************************************************************)
MaxInits == 2

\* an init() call in flight: where it waits, and the array of discoverTools
InitCall(at, found) == [at |-> at, found |-> found]

\* faulty variant: the array under construction is the table of the runtime
TableWhileLoading(current, found, finished) == found

\* tools = await discoverTools(...): the table of the runtime as an import
\* step leaves it
TableAfterImport(current, found, finished) ==
  IF finished THEN found ELSE current

\* init() is called: nothing happens when the server is initialized;
\* otherwise the timeout is resolved and discoverTools starts its first import
initCalled ==
  /\ listening = "idle"
  /\ ~initialized
  /\ Len(inits) < MaxInits
  /\ toolTimeoutMs' = ResolveTimeout(config.DZX_TOOL_TIMEOUT_MS)
  /\ inits' = Append(inits, InitCall("import", <<>>))
  /\ UNCHANGED <<config, initialized, tools, resources, prompts, metrics,
                 schemaCache, files, listening, served, last, inflight,
                 running, handlers, subject, value, dev>>

\* an import settles: the descriptor of the file is pushed; after the last
\* file discoverTools returns, init() assigns the tables and starts to load
\* the context module
toolImported ==
  \E k \in 1..Len(inits) :
    /\ inits[k].at = "import"
    /\ LET found == Append(inits[k].found, ToolTable[Len(inits[k].found) + 1])
           finished == Len(found) = Len(ToolTable)
       IN /\ tools' = TableAfterImport(tools, found, finished)
          /\ resources' = IF finished THEN discoverResources(files) ELSE resources
          /\ prompts' = IF finished THEN discoverPrompts(files) ELSE prompts
          /\ inits' = [inits EXCEPT ![k] =
                         InitCall(IF finished THEN "context" ELSE "import", found)]
    /\ UNCHANGED <<config, initialized, toolTimeoutMs, metrics, schemaCache,
                   files, listening, served, last, inflight, running,
                   handlers, subject, value, dev>>

\* the context module is loaded: the tools get their metrics and the server
\* is initialized
contextLoaded ==
  \E k \in 1..Len(inits) :
    /\ inits[k].at = "context"
    /\ metrics' = EnsureAll(metrics, tools, 1)
    /\ initialized' = TRUE
    /\ inits' = Without(inits, k)
    /\ UNCHANGED <<config, tools, resources, prompts, toolTimeoutMs,
                   schemaCache, files, listening, served, last, inflight,
                   running, handlers, subject, value, dev>>

\* the requests that read the tables
TableInputs ==
  {Sent(Stringify(m), Quiet, 0) :
     m \in {Req("1", M2("tools", "list")), Req("1", M2("resources", "list")),
            Req("1", M2("prompts", "list")), CallOf("1", "plain", "good"),
            CallOf("1", "yup-bad", "good")}}

\* server.processRequest(raw) at any moment of the discovery
requestDuringInit ==
  /\ served < MaxServed
  /\ \E in \in TableInputs :
       Answered("processRequest", NoRoute, in, Server,
                handleRequest(in.raw, Server, in.beh, in.elapsed))
  /\ served' = served + 1
  /\ UNCHANGED <<config, initialized, tools, resources, prompts,
                 toolTimeoutMs, files, listening, inflight, running, handlers,
                 inits, subject, value, dev>>

NextDiscovery == initCalled \/ toolImported \/ contextLoaded \/ requestDuringInit

SpecDiscovery == Init /\ [][NextDiscovery]_vars

(***************************************************************************)
(* Schema resolution of discoverTools: what a tool module offers and what   *)
(* its descriptor gets.  A schema is told by where it comes from.           *)
(***************************************************************************)
\* mod.schema ?? mod.toolSchema ?? ...: nothing, a value that is no object,
\* or an object with `input` and `output`, each present or not
SchemaExport(k, input, output) == [k |-> k, input |-> input, output |-> output]

\* inferSchemaFromDocBlock / inferSchemaFromSignature: what was inferred
Inference(inputSchema, outputSchema) ==
  [inputSchema |-> inputSchema, outputSchema |-> outputSchema]

\* a tool file: its schema export, the inference from its doc block (Undef:
\* the default export has no doc block) and from its signature
ToolModule(schemaExport, docBlock, signature) ==
  [schemaExport |-> schemaExport, docBlock |-> docBlock, signature |-> signature]

NoInference == [k |-> "none"]
Inferred(inputSchema, outputSchema) ==
  [k |-> "inferred", inputSchema |-> inputSchema, outputSchema |-> outputSchema]

\* a schema and the source recorded for it, in one direction
Resolved(schema, source) == [schema |-> schema, source |-> source]

\* faulty variant: the doc block is consulted first
ResolveDocFirst(explicit, doc, signature, default) ==
  IF doc # Undef THEN Resolved(doc, "jsdoc")
  ELSE IF explicit # Undef THEN Resolved(explicit, "schema")
  ELSE IF signature # Undef THEN Resolved(signature, "signature")
  ELSE Resolved(default, "default")

\* one direction of the resolution: explicit is schemaObject.input (output)
\* when the export is used, doc and signature the inferred schemas where
\* they are consulted; each step fills the schema only when it is not set
Resolve(explicit, doc, signature, default) ==
  LET afterExport == IF explicit # Undef THEN Resolved(explicit, "schema")
                     ELSE Resolved(Undef, Undef)
      afterDoc == IF afterExport.schema = Undef /\ doc # Undef
                    THEN Resolved(doc, "jsdoc") ELSE afterExport
      afterSignature == IF afterDoc.schema = Undef /\ signature # Undef
                          THEN Resolved(signature, "signature") ELSE afterDoc
  IN IF afterSignature.schema = Undef THEN Resolved(default, "default")
     ELSE afterSignature

\* the schemas and sources of the descriptor that discoverTools pushes
ResolveSchemas(mod) ==
  LET schemaObject == mod.schemaExport
      used == /\ schemaObject.k = "object"
              /\ (schemaObject.input # Undef \/ schemaObject.output # Undef)
      docRead == mod.docBlock.k = "inferred"
      input == Resolve(IF used THEN schemaObject.input ELSE Undef,
                       IF docRead THEN mod.docBlock.inputSchema ELSE Undef,
                       mod.signature.inputSchema, "defaultInputSchema")
      output == Resolve(IF used THEN schemaObject.output ELSE Undef,
                        IF docRead THEN mod.docBlock.outputSchema ELSE Undef,
                        mod.signature.outputSchema, "defaultOutputSchema")
  IN [inputSchema |-> input.schema, outputSchema |-> output.schema,
      inputSchemaSource |-> input.source, outputSchemaSource |-> output.source]

\* the tool modules discovery is given
Offered(text) == {Undef, text}
ToolModules ==
  {ToolModule(e, d, g) :
     e \in {SchemaExport("undefined", Undef, Undef),
            SchemaExport("scalar", Undef, Undef)}
           \cup {SchemaExport("object", i, o) :
                   i \in Offered("schema.input"), o \in Offered("schema.output")},
     d \in {NoInference}
           \cup {Inferred(i, o) :
                   i \in Offered("jsdoc input"), o \in Offered("jsdoc output")},
     g \in {Inference(i, o) :
              i \in Offered("signature input"),
              o \in Offered("signature output")}}

\* discovery meets one tool file
InitSchemas ==
  /\ Constructed
  /\ config.DZX_TOOL_TIMEOUT_MS = Undef
  /\ subject \in ToolModules
  /\ value = NoSubject

\* discoverTools resolves the schemas of the file
resolveSchemas ==
  /\ subject \in ToolModules
  /\ value = NoSubject
  /\ value' = ResolveSchemas(subject)
  /\ UNCHANGED <<config, initialized, tools, resources, prompts,
                 toolTimeoutMs, metrics, schemaCache, files, listening,
                 served, last, inflight, running, handlers, inits, subject,
                 dev>>

NextSchemas == resolveSchemas

SpecSchemas == InitSchemas /\ [][NextSchemas]_vars

(***************************************************************************)
(* parseFrontmatter.  A document is a sequence of pieces of text: the three *)
(* dashes "---", a letter "a", a blank " ", and the characters "\r", "\n".  *)
(***************************************************************************)
MaxDoc == 5

\* content.split(/\r?\n/), from piece i on: line is the line being read
RECURSIVE SplitLines(_, _, _)
SplitLines(content, i, line) ==
  IF i > Len(content) THEN <<line>>
  ELSE IF content[i] = "\n" THEN <<line>> \o SplitLines(content, i + 1, <<>>)
  ELSE IF content[i] = "\r" /\ i < Len(content) /\ content[i + 1] = "\n"
    THEN <<line>> \o SplitLines(content, i + 2, <<>>)
  ELSE SplitLines(content, i + 1, Append(line, content[i]))

\* lines.join(separator)
RECURSIVE JoinLines(_, _)
JoinLines(lines, separator) ==
  IF lines = <<>> THEN <<>>
  ELSE IF Len(lines) = 1 THEN Head(lines)
  ELSE Head(lines) \o <<separator>> \o JoinLines(Tail(lines), separator)

\* String.prototype.trim of a line
RECURSIVE TrimLine(_)
TrimLine(line) ==
  IF line = <<>> THEN <<>>
  ELSE IF Head(line) \in {" ", "\r", "\n"} THEN TrimLine(Tail(line))
  ELSE IF line[Len(line)] \in {" ", "\r", "\n"}
    THEN TrimLine(SubSeq(line, 1, Len(line) - 1))
  ELSE line

\* the loop that looks for the closing delimiter, from lines[i] on (the
\* first line is lines[1] here); 0 stands for endIndex = -1
RECURSIVE EndIndex(_, _)
EndIndex(lines, i) ==
  IF i > Len(lines) THEN 0
  ELSE IF TrimLine(lines[i]) = <<"---">> THEN i
  ELSE EndIndex(lines, i + 1)

\* parseFrontmatter(content): the lines of the block, from which the
\* metadata are read, and the body
parseFrontmatter(content) ==
  IF ~(Len(content) > 0 /\ content[1] = "---")
    THEN [frontmatterLines |-> <<>>, body |-> content]
  ELSE LET lines == SplitLines(content, 1, <<>>)
           endIndex == EndIndex(lines, 2)
       IN IF endIndex = 0 THEN [frontmatterLines |-> <<>>, body |-> content]
          ELSE [frontmatterLines |-> SubSeq(lines, 2, endIndex - 1),
                body |-> JoinLines(SubSeq(lines, endIndex + 1, Len(lines)), "\n")]

\* the documents: "---" and up to MaxDoc more pieces
Pieces == {"---", "a", " ", "\r", "\n"}
Documents ==
  {<<"---">> \o rest :
     rest \in UNION {[1..n -> Pieces] : n \in 0..MaxDoc}}

\* a document is read from the disk
InitFrontmatter ==
  /\ Constructed
  /\ config.DZX_TOOL_TIMEOUT_MS = Undef
  /\ subject \in Documents
  /\ value = NoSubject

\* discovery, or prompts/get, parses it
parseDocument ==
  /\ subject \in Documents
  /\ value = NoSubject
  /\ value' = parseFrontmatter(subject)
  /\ UNCHANGED <<config, initialized, tools, resources, prompts,
                 toolTimeoutMs, metrics, schemaCache, files, listening,
                 served, last, inflight, running, handlers, inits, subject,
                 dev>>

NextFrontmatter == parseDocument

SpecFrontmatter == InitFrontmatter /\ [][NextFrontmatter]_vars

(***************************************************************************)
(* parseTypeString.  A type expression is a sequence of pieces: a word      *)
(* ("string", "Record", "Foo", "1": a run of digits), a punctuation         *)
(* character, or a blank " " (any white space).  No word holds the text of  *)
(* another one, so that type.includes(w) asks for the piece w.              *)
(***************************************************************************)
MaxType == 3

\* a schema node: its kind, its text (constants, primitive types), its
\* sub-schemas, and the keys and the required keys of an object
Node(k, v, items, keys, required) ==
  [k |-> k, v |-> v, items |-> items, keys |-> keys, required |-> required]
Leaf(k, v) == Node(k, v, <<>>, <<>>, <<>>)
Over(k, items) == Node(k, <<>>, items, <<>>, <<>>)

\* the loop of splitTopLevel and of splitByTopLevel, from input[i] on
RECURSIVE SplitLoop(_, _, _, _, _, _, _, _)
SplitLoop(input, i, current, depth, parts, opens, closes, delimiters) ==
  IF i > Len(input)
    THEN IF TrimLine(current) # <<>> THEN Append(parts, TrimLine(current))
         ELSE parts
  ELSE LET char == input[i]
           now == IF char \in opens THEN depth + 1
                  ELSE IF char \in closes THEN depth - 1
                  ELSE depth
       IN IF char \in delimiters /\ now = 0
            THEN SplitLoop(input, i + 1, <<>>, now,
                           IF TrimLine(current) # <<>>
                             THEN Append(parts, TrimLine(current)) ELSE parts,
                           opens, closes, delimiters)
          ELSE SplitLoop(input, i + 1, Append(current, char), now, parts,
                         opens, closes, delimiters)

splitTopLevel(input) ==
  SplitLoop(input, 1, <<>>, 0, <<>>, {"{", "[", "<"}, {"}", "]", ">"}, {",", ";"})

splitByTopLevel(input, delimiter) ==
  SplitLoop(input, 1, <<>>, 0, <<>>, {"{", "[", "<", "("}, {"}", "]", ">", ")"},
            {delimiter})

\* the loop of isWrappedInParens, from input[i] on
RECURSIVE ParenLoop(_, _, _)
ParenLoop(input, i, depth) ==
  IF i > Len(input) THEN depth = 0
  ELSE LET now == IF input[i] = "(" THEN depth + 1
                  ELSE IF input[i] = ")" THEN depth - 1
                  ELSE depth
       IN IF now = 0 /\ i < Len(input) THEN FALSE
          ELSE ParenLoop(input, i + 1, now)

isWrappedInParens(input) ==
  /\ Len(input) > 0
  /\ input[1] = "("
  /\ input[Len(input)] = ")"
  /\ ParenLoop(input, 1, 0)

\* type.match(/^Name<(.+)>$/): the group; <<>> stands for no match
Generic(type, name) ==
  IF Len(type) >= 4 /\ type[1] = name /\ type[2] = "<" /\ type[Len(type)] = ">"
    THEN SubSeq(type, 3, Len(type) - 1) ELSE <<>>

\* type.match(/^Name<(.+),\s*(.+)>$/): the second group, the text after the
\* last comma that leaves something on both sides; <<>> stands for no match
GenericValue(type, name) ==
  LET between == Generic(type, name)
      commas == {c \in 2..(Len(between) - 1) : between[c] = ","}
  IN IF commas = {} THEN <<>>
     ELSE LET lastComma == CHOOSE c \in commas : \A d \in commas : d <= c
          IN SubSeq(between, lastComma + 1, Len(between))

\* typeStr.trim() with Promise<...> unwrapped
normalizeTypeString(typeStr) ==
  LET trimmed == TrimLine(typeStr) IN
  IF Generic(trimmed, "Promise") # <<>> THEN TrimLine(Generic(trimmed, "Promise"))
  ELSE trimmed

\* .replace(/\s+/g, " ")
RECURSIVE CollapseBlanks(_)
CollapseBlanks(type) ==
  IF Len(type) < 2 THEN type
  ELSE IF type[1] = " " /\ type[2] = " " THEN CollapseBlanks(Tail(type))
  ELSE <<type[1]>> \o CollapseBlanks(Tail(type))

\* /^"[^"]*"$/ and /^'[^']*'$/
IsLiteral(type, quote) ==
  /\ Len(type) >= 2
  /\ type[1] = quote
  /\ type[Len(type)] = quote
  /\ \A i \in 2..(Len(type) - 1) : type[i] # quote

\* /^-?\d+(\.\d+)?$/
IsNumber(type) ==
  type \in {<<"1">>, <<"-", "1">>, <<"1", ".", "1">>, <<"-", "1", ".", "1">>}

Words ==
  {"Record", "Map", "Set", "Array", "ReadonlyArray", "Tuple", "Promise", "Date",
   "bigint", "any", "unknown", "true", "false", "object", "string", "number",
   "boolean", "void", "undefined", "null", "Foo", "a", "b", "1"}

\* the end of the run of words that begins at part[i]
RECURSIVE WordsEnd(_, _)
WordsEnd(part, i) ==
  IF i <= Len(part) /\ part[i] \in Words THEN WordsEnd(part, i + 1) ELSE i - 1

\* part.match(/^([A-Za-z_$][\w$]*)(\?)?\s*:\s*(.+)$/) for a property of an
\* object type: the key, the question mark and the type
Property(part) ==
  LET e == IF Len(part) > 0 /\ part[1] \in Words \ {"1"} THEN WordsEnd(part, 1) ELSE 0
      optional == e + 1 <= Len(part) /\ part[e + 1] = "?"
      q == IF optional THEN e + 1 ELSE e
      c == IF q + 1 <= Len(part) /\ part[q + 1] = " " THEN q + 2 ELSE q + 1
  IN IF e > 0 /\ c < Len(part) /\ part[c] = ":"
       THEN [ok |-> TRUE, key |-> SubSeq(part, 1, e), optional |-> optional,
             rawType |-> SubSeq(part, c + 1, Len(part))]
     ELSE [ok |-> FALSE, key |-> <<>>, optional |-> FALSE, rawType |-> <<>>]

\* props[key] = schema
PutProp(node, key, schema) ==
  IF \E i \in 1..Len(node.keys) : node.keys[i] = key
    THEN LET i == CHOOSE i \in 1..Len(node.keys) : node.keys[i] = key
         IN [node EXCEPT !.items[i] = schema]
  ELSE [node EXCEPT !.keys = Append(node.keys, key),
                    !.items = Append(node.items, schema)]

RECURSIVE parseTypeString(_)
RECURSIVE ObjectLoop(_, _, _)

\* faulty variant of the last step: a type that is not recognised has no
\* schema
FallbackMissing(type) ==
  IF \E i \in 1..Len(type) : type[i] = "object" THEN Leaf("type", <<"object">>)
  ELSE IF \E i \in 1..Len(type) : type[i] = "string" THEN Leaf("type", <<"string">>)
  ELSE IF \E i \in 1..Len(type) : type[i] = "number" THEN Leaf("type", <<"number">>)
  ELSE IF \E i \in 1..Len(type) : type[i] = "boolean" THEN Leaf("type", <<"boolean">>)
  ELSE IF \E i \in 1..Len(type) : type[i] \in {"void", "undefined", "null"}
    THEN Leaf("type", <<"null">>)
  ELSE Leaf("undefined", <<>>)

\* the last step: the primitive whose name the type holds, else string
Fallback(type) ==
  IF \E i \in 1..Len(type) : type[i] = "object" THEN Leaf("type", <<"object">>)
  ELSE IF \E i \in 1..Len(type) : type[i] = "string" THEN Leaf("type", <<"string">>)
  ELSE IF \E i \in 1..Len(type) : type[i] = "number" THEN Leaf("type", <<"number">>)
  ELSE IF \E i \in 1..Len(type) : type[i] = "boolean" THEN Leaf("type", <<"boolean">>)
  ELSE IF \E i \in 1..Len(type) : type[i] \in {"void", "undefined", "null"}
    THEN Leaf("type", <<"null">>)
  ELSE Leaf("type", <<"string">>)

\* the loop over the properties of an object type
ObjectLoop(parts, i, node) ==
  IF i > Len(parts) THEN node
  ELSE LET match == Property(parts[i]) IN
       IF ~match.ok THEN ObjectLoop(parts, i + 1, node)
       ELSE LET put == PutProp(node, match.key, parseTypeString(match.rawType))
            IN ObjectLoop(parts, i + 1,
                          IF match.optional THEN put
                          ELSE [put EXCEPT !.required = Append(@, match.key)])

\* parts.map((part) => parseTypeString(part))
ParseAll(parts) == [i \in 1..Len(parts) |-> parseTypeString(parts[i])]

\* a tuple type with the given text between its brackets
TupleOf(inner) ==
  Over("tuple", IF inner # <<>> THEN ParseAll(splitTopLevel(inner)) ELSE <<>>)

\* parseTypeString after normalizeTypeString(typeStr).replace(/\s+/g, " ")
ParseType(type) ==
  IF isWrappedInParens(type)
    THEN parseTypeString(TrimLine(SubSeq(type, 2, Len(type) - 1)))
  ELSE IF IsLiteral(type, "\"") \/ IsLiteral(type, "'")
    THEN Leaf("const", SubSeq(type, 2, Len(type) - 1))
  ELSE IF type = <<"true">> \/ type = <<"false">> THEN Leaf("const", type)
  ELSE IF IsNumber(type) THEN Leaf("const", type)
  ELSE IF type = <<"any">> \/ type = <<"unknown">> THEN Leaf("empty", <<>>)
  ELSE IF type = <<"Date">> THEN Leaf("type", <<"string", "date-time">>)
  ELSE IF type = <<"bigint">> THEN Leaf("type", <<"integer">>)
  ELSE IF GenericValue(type, "Record") # <<>>
    THEN Over("additionalProperties",
              <<parseTypeString(GenericValue(type, "Record"))>>)
  ELSE IF GenericValue(type, "Map") # <<>>
    THEN Over("additionalProperties",
              <<parseTypeString(GenericValue(type, "Map"))>>)
  ELSE IF Generic(type, "Set") # <<>>
    THEN Over("uniqueItems", <<parseTypeString(Generic(type, "Set"))>>)
  ELSE IF Len(splitByTopLevel(type, "|")) > 1
    THEN Over("anyOf", ParseAll(splitByTopLevel(type, "|")))
  ELSE IF Len(splitByTopLevel(type, "&")) > 1
    THEN Over("allOf", ParseAll(splitByTopLevel(type, "&")))
  ELSE IF Len(type) >= 2 /\ type[Len(type) - 1] = "[" /\ type[Len(type)] = "]"
    THEN LET inner == TrimLine(SubSeq(type, 1, Len(type) - 2)) IN
         IF Len(inner) > 0 /\ inner[1] = "(" /\ inner[Len(inner)] = ")"
           THEN Over("array", <<parseTypeString(SubSeq(inner, 2, Len(inner) - 1))>>)
         ELSE Over("array", <<parseTypeString(inner)>>)
  ELSE IF Generic(type, "Array") # <<>>
    THEN Over("array", <<parseTypeString(Generic(type, "Array"))>>)
  ELSE IF Generic(type, "ReadonlyArray") # <<>>
    THEN Over("array", <<parseTypeString(Generic(type, "ReadonlyArray"))>>)
  ELSE IF Len(type) > 0 /\ type[1] = "[" /\ type[Len(type)] = "]"
    THEN TupleOf(TrimLine(SubSeq(type, 2, Len(type) - 1)))
  ELSE IF Generic(type, "Tuple") # <<>>
    THEN TupleOf(TrimLine(Generic(type, "Tuple")))
  ELSE IF Len(type) > 0 /\ type[1] = "{" /\ type[Len(type)] = "}"
    THEN ObjectLoop(splitTopLevel(TrimLine(SubSeq(type, 2, Len(type) - 1))), 1,
                    Over("object", <<>>))
  ELSE Fallback(type)

parseTypeString(typeStr) == ParseType(CollapseBlanks(normalizeTypeString(typeStr)))

\* the type expressions: every sequence of up to MaxType of a few pieces,
\* and unions and intersections built from types of every form
TypePieces == {"string", "Foo", "Set", "(", ")", "<", ">", "[", "]", "|", "{"}
ShortTypes == UNION {[1..n -> TypePieces] : n \in 0..MaxType}

TypeForms ==
  {<<"string">>, <<"Foo">>, <<"\"", "a", "\"">>,
   <<"Record", "<", "string", ",", " ", "number", ">">>,
   <<"Map", "<", "string", ",", "Foo", ">">>,
   <<"Set", "<", "string", ">">>,
   <<"Array", "<", "number", ">">>,
   <<"Promise", "<", "string", ">">>,
   <<"(", "string", " ", "|", " ", "number", ")">>,
   <<"{", "a", ":", " ", "string", ";", " ", "b", "?", ":", "number", "}">>,
   <<"[", "string", ",", " ", "number", "]">>,
   <<"string", "[", "]">>,
   <<"\"", "a", "|", "b", "\"">>,
   <<"\"", "<", "\"">>,
   <<"'", "a", "&", "b", "'">>}

Joined(left, operator, right) == left \o <<" ", operator, " ">> \o right

TypeStrings ==
  ShortTypes
  \cup TypeForms
  \cup {Joined(l, o, r) : l \in TypeForms, o \in {"|", "&"}, r \in TypeForms}
  \cup {Joined(<<"string">>, "|", Joined(<<"Foo">>, "|", <<"null">>)),
        <<"[", "\"", "a", ",", "b", "\"", ",", " ", "string", "]">>,
        <<"{", "a", ":", " ", "\"", "x", ";", "y", "\"", "}">>,
        <<" ", "string", " ", " ">>,
        <<"(", "(", "(", "(", "Foo", ")", ")", ")", ")">>,
        <<"Set", "<", "Set", "<", "Set", "<", "true", ">", ">", ">">>,
        <<"Tuple", "<", "1", ",", "bigint", ",", "Date", ",", "any", ">">>,
        <<"ReadonlyArray", "<", "boolean", ">">>}

\* a type expression is met in a doc comment or in a signature
InitTypes ==
  /\ Constructed
  /\ config.DZX_TOOL_TIMEOUT_MS = Undef
  /\ subject \in TypeStrings
  /\ value = NoSubject

\* it is parsed
parseType ==
  /\ subject \in TypeStrings
  /\ value = NoSubject
  /\ value' = parseTypeString(subject)
  /\ UNCHANGED <<config, initialized, tools, resources, prompts,
                 toolTimeoutMs, metrics, schemaCache, files, listening,
                 served, last, inflight, running, handlers, inits, subject,
                 dev>>

NextTypes == parseType

SpecTypes == InitTypes /\ [][NextTypes]_vars

(***************************************************************************)
(* discoverTools over a tools directory.  A tool file is told by its path   *)
(* relative to the directory, a sequence of characters with the extension   *)
(* as its last piece, and by what importing it gives: an async function as  *)
(* default export ("async"), a plain function ("sync"), a default export    *)
(* that is no function ("value"), no default export ("none"), or an import  *)
(* that throws ("throws").                                                  *)
(***************************************************************************)
MaxFiles == 2

TOOL_FILE_EXTENSIONS == {".ts", ".js", ".mjs", ".cjs"}

ToolFile(file, module) == [file |-> file, module |-> module]

\* path.extname(file)
extname(file) ==
  IF file # <<>> /\ file[Len(file)] \in TOOL_FILE_EXTENSIONS \cup {".md"}
    THEN file[Len(file)] ELSE ""

\* a.localeCompare(b) < 0 on the characters of the paths: `-` before `.`
\* before `/` before the letters
PieceRank(piece) ==
  CASE piece = "-" -> 1
    [] piece = ".cjs" -> 2
    [] piece = ".js" -> 3
    [] piece = ".md" -> 4
    [] piece = ".mjs" -> 5
    [] piece = ".ts" -> 6
    [] piece = "/" -> 7
    [] piece = "a" -> 8
    [] OTHER -> 9

RECURSIVE Before(_, _)
Before(a, b) ==
  IF b = <<>> THEN FALSE
  ELSE IF a = <<>> THEN TRUE
  ELSE IF a[1] # b[1] THEN PieceRank(a[1]) < PieceRank(b[1])
  ELSE Before(Tail(a), Tail(b))

\* listFiles(toolsPath).filter(extension).sort(localeCompare)
RECURSIVE SortedFiles(_)
SortedFiles(listing) ==
  LET kept == {f \in listing : extname(f.file) \in TOOL_FILE_EXTENSIONS} IN
  IF kept = {} THEN <<>>
  ELSE LET first == CHOOSE f \in kept : \A g \in kept \ {f} : Before(f.file, g.file)
       IN <<first>> \o SortedFiles(kept \ {first})

\* relativeFile.replace(/\.[^.]+$/, "") then every separator replaced by `-`
toolNameFromPath(relativeFile) ==
  LET withoutExt == IF extname(relativeFile) # ""
                      THEN SubSeq(relativeFile, 1, Len(relativeFile) - 1)
                      ELSE relativeFile
  IN [i \in 1..Len(withoutExt) |->
        IF withoutExt[i] = "/" THEN "-" ELSE withoutExt[i]]

\* what discoverTools ends with: the array it returns and the warnings it
\* gave, or the error it throws
Discovery(found, warnings) == [k |-> "return", tools |-> found, warnings |-> warnings]
DiscoveryFailed(message) == [k |-> "throw", message |-> message]

\* faulty variant: fail only warns
failWarnOnly(message, failOnInvalid) == [k |-> "warn", message |-> message]

\* fail(message): throws when invalid tools should fail the build, warns
\* otherwise
fail(message, failOnInvalid) ==
  IF failOnInvalid THEN [k |-> "throw", message |-> message]
  ELSE [k |-> "warn", message |-> message]

\* the body of the loop for one file: what the try block or its catch does.
\* An error thrown in the try block, by the import or by fail, is caught and,
\* when invalid tools fail the build, thrown again with the file named.
LoadToolFile(entry, failOnInvalid) ==
  LET descriptor == [name |-> toolNameFromPath(entry.file), file |-> entry.file]
      caught(message) ==
        IF failOnInvalid
          THEN [k |-> "throw",
                message |-> <<"Failed to load tool file", entry.file, message>>]
          ELSE [k |-> "skip",
                warnings |-> << <<"Failed to load tool file", entry.file, message>> >>]
  IN IF entry.module = "throws" THEN caught("import failed")
     ELSE IF entry.module \in {"none", "value"}
       THEN LET failed == fail("does not export a default function", failOnInvalid)
            IN IF failed.k = "throw" THEN caught(failed.message)
               ELSE [k |-> "skip", warnings |-> <<failed.message>>]
     ELSE IF entry.module # "async"
       THEN LET failed == fail("default export must be async", failOnInvalid)
            IN IF failed.k = "throw" THEN caught(failed.message)
               ELSE [k |-> "push", tool |-> descriptor,
                     warnings |-> <<failed.message>>]
     ELSE [k |-> "push", tool |-> descriptor, warnings |-> <<>>]

\* for (const file of toolFiles) { ... } return tools
RECURSIVE DiscoverLoop(_, _, _, _, _)
DiscoverLoop(toolFiles, i, found, warnings, failOnInvalid) ==
  IF i > Len(toolFiles) THEN Discovery(found, warnings)
  ELSE LET step == LoadToolFile(toolFiles[i], failOnInvalid) IN
       IF step.k = "throw" THEN DiscoveryFailed(step.message)
       ELSE DiscoverLoop(toolFiles, i + 1,
                         IF step.k = "push" THEN Append(found, step.tool) ELSE found,
                         warnings \o step.warnings, failOnInvalid)

discoverTools(listing, failOnInvalid) ==
  DiscoverLoop(SortedFiles(listing), 1, <<>>, <<>>, failOnInvalid)

\* tools.find((item) => item.name === toolName): the descriptors a name has
\* and the one a call gets
Named(found, toolName) == {i \in 1..Len(found) : found[i].name = toolName}

\* the directories: files of distinct paths, at top level and in a directory
ToolPaths ==
  {<<"a", "-", "b", ".ts">>, <<"a", "/", "b", ".ts">>, <<"b", ".ts">>,
   <<"b", ".js">>, <<"b", ".md">>}
ModuleKinds == {"async", "sync", "value", "none", "throws"}
RECURSIVE ListingsOf(_)
ListingsOf(n) ==
  IF n = 0 THEN {{}}
  ELSE LET fewer == ListingsOf(n - 1)
           more == {p \in fewer \X (ToolPaths \X ModuleKinds) :
                      \A x \in p[1] : x.file # p[2][1]}
       IN fewer \cup {p[1] \cup {ToolFile(p[2][1], p[2][2])} : p \in more}
Listings == ListingsOf(MaxFiles)
Directories == {[listing |-> l, failOnInvalid |-> strict] :
                  l \in Listings, strict \in BOOLEAN}

\* a tools directory is about to be discovered, for a build or by init()
InitToolFiles ==
  /\ Constructed
  /\ config.DZX_TOOL_TIMEOUT_MS = Undef
  /\ subject \in Directories
  /\ value = NoSubject

\* it is discovered
discoverDirectory ==
  /\ subject \in Directories
  /\ value = NoSubject
  /\ value' = discoverTools(subject.listing, subject.failOnInvalid)
  /\ UNCHANGED <<config, initialized, tools, resources, prompts,
                 toolTimeoutMs, metrics, schemaCache, files, listening,
                 served, last, inflight, running, handlers, inits, subject,
                 dev>>

NextToolFiles == discoverDirectory

SpecToolFiles == InitToolFiles /\ [][NextToolFiles]_vars

(***************************************************************************)
(* The dev command.  runDev spawns the server as a detached child process  *)
(* and, for the node runtime with watching enabled, creates a watcher whose *)
(* debounced change events call start() again.  start() sends SIGTERM to    *)
(* the child it holds and spawns the next one in the same synchronous run:  *)
(* it awaits nothing in between.  The server handles SIGTERM by closing its *)
(* listener and exiting, so a signalled child exits in a later step of its  *)
(* own.  dev.processes is the operating system's view of the children ever  *)
(* spawned: "running", "terminating" once SIGTERM was sent, "exited", and   *)
(* "failed" for a spawn that produced no process and will emit 'error'.     *)
(***************************************************************************)
MaxChildren == 3

Runtimes == {"node", "deno"}
ChangedFiles == {"tools/a.ts", ".env"}
SpawnOutcomes == {"running", "failed"}

\* process.kill(-child.pid, "SIGTERM"), or child.kill("SIGTERM") when the
\* child has no pid or the group is gone: a live process is signalled, and
\* the call returns without waiting for it
kill(processes, child) ==
  IF child = 0 THEN processes
  ELSE [processes EXCEPT
          ![child] = IF @ = "running" THEN "terminating" ELSE @]

\* start() of runDev: the restart banner, the signal to the present child,
\* the spawn of the next
startChild(d, spawned) ==
  LET signalled == kill(d.processes, d.child) IN
  [d EXCEPT !.lastChange = IF d.started THEN "undefined" ELSE @,
            !.processes = Append(signalled, spawned),
            !.child = Len(signalled) + 1,
            !.started = (d.started \/ d.runtime = "node")]

\* dzx dev [--no-watch]
runDev ==
  /\ dev.phase = "off"
  /\ \E runtime \in Runtimes, watchEnabled \in BOOLEAN,
        spawned \in SpawnOutcomes :
       LET args == [dev EXCEPT !.runtime = runtime,
                               !.watchEnabled = watchEnabled] IN
       dev' = [startChild(args, spawned) EXCEPT
                 !.phase = "running",
                 !.closeWatcher = (runtime = "node" /\ watchEnabled)]
  /\ UNCHANGED <<config, initialized, tools, resources, prompts, toolTimeoutMs,
                 metrics, schemaCache, files, listening, served, last, inflight,
                 running, handlers, inits, subject, value>>

\* the watcher reports an added, changed or removed file: handleChange
\* clears the pending timer and arms a new one
handleChange ==
  /\ dev.phase = "running"
  /\ dev.closeWatcher
  /\ \E filePath \in ChangedFiles : dev' = [dev EXCEPT !.timeout = filePath]
  /\ UNCHANGED <<config, initialized, tools, resources, prompts, toolTimeoutMs,
                 metrics, schemaCache, files, listening, served, last, inflight,
                 running, handlers, inits, subject, value>>

\* the debounce timer fires: onChange notes the file and calls start()
onChange ==
  /\ dev.phase = "running"
  /\ dev.timeout # NoTimer
  /\ Len(dev.processes) < MaxChildren
  /\ \E spawned \in SpawnOutcomes :
       LET noted == [dev EXCEPT !.lastChange = "change: " \o dev.timeout,
                                !.timeout = NoTimer] IN
       dev' = startChild(noted, spawned)
  /\ UNCHANGED <<config, initialized, tools, resources, prompts, toolTimeoutMs,
                 metrics, schemaCache, files, listening, served, last, inflight,
                 running, handlers, inits, subject, value>>

\* a child process exits: its shutdown handler after SIGTERM has closed the
\* server, or the server has ended by itself
childExits ==
  /\ \E pid \in DOMAIN dev.processes :
       /\ dev.processes[pid] \in {"running", "terminating"}
       /\ dev' = [dev EXCEPT !.processes[pid] = "exited"]
  /\ UNCHANGED <<config, initialized, tools, resources, prompts, toolTimeoutMs,
                 metrics, schemaCache, files, listening, served, last, inflight,
                 running, handlers, inits, subject, value>>

\* the 'error' event of a spawn that failed: the dev command exits with 1
childError ==
  /\ dev.phase = "running"
  /\ \E pid \in DOMAIN dev.processes : dev.processes[pid] = "failed"
  /\ dev' = [dev EXCEPT !.phase = "exited", !.timeout = NoTimer]
  /\ UNCHANGED <<config, initialized, tools, resources, prompts, toolTimeoutMs,
                 metrics, schemaCache, files, listening, served, last, inflight,
                 running, handlers, inits, subject, value>>

\* SIGINT or SIGTERM to the dev command: the watcher is closed, the child
\* is signalled and the command exits
shutdownDev ==
  /\ dev.phase = "running"
  /\ dev' = [dev EXCEPT !.phase = "exited", !.timeout = NoTimer,
                        !.closeWatcher = FALSE,
                        !.processes = kill(dev.processes, dev.child)]
  /\ UNCHANGED <<config, initialized, tools, resources, prompts, toolTimeoutMs,
                 metrics, schemaCache, files, listening, served, last, inflight,
                 running, handlers, inits, subject, value>>

InitDev ==
  /\ Constructed
  /\ config.DZX_TOOL_TIMEOUT_MS = Undef
  /\ subject = NoSubject
  /\ value = NoSubject

NextDev ==
  runDev \/ handleChange \/ onChange \/ childExits \/ childError \/ shutdownDev

SpecDev == InitDev /\ [][NextDev]_vars

(***************************************************************************)
(* Properties.  Each is stated on `last`, the record of the latest         *)
(* exchange: what was sent, the server as the exchange found it (pre) and  *)
(* what came of it.                                                        *)
(***************************************************************************)
\* the exchange went through handleRequest: in process or by a plain POST
ViaHandleRequest == last.op \in {"processRequest", "post"}

\* what the body of the latest exchange parses to
Parsed == JSONparse(last.request.raw)

\* a JSON-RPC 2.0 message: an object with jsonrpc "2.0" and a string method
WellFormed(v) == v.t = "object" /\ v.jsonrpc = "2.0" /\ v.method.k = "string"

IdAbsentOrNull(v) == v.id = Undef \/ v.id = JNull

\* the body is one message, not a batch
SingleMessage == ViaHandleRequest /\ Parsed.ok /\ WellFormed(Parsed.v)

\* the body is a batch of messages
BatchOfMessages ==
  /\ ViaHandleRequest
  /\ Parsed.ok
  /\ Parsed.v.t = "array"
  /\ \A i \in 1..Len(Parsed.v.elems) : WellFormed(Parsed.v.elems[i])

IdsOf(messages) == [i \in 1..Len(messages) |-> messages[i].id]

WithId(messages) ==
  LET HasId(m) == ~IdAbsentOrNull(m) IN SelectSeq(messages, HasId)

IsError(response, code) ==
  response.has = {"error"} /\ response.error.code = code

\* M with every "." replaced by "/"
Slashed(method) == Str(SplitJoin(method.s, ".", "/"))

\* the normalized form of a method: dots become slashes when it holds no
\* slash
NormalForm(method) ==
  IF Includes(method.s, "/") THEN method ELSE Slashed(method)

\* C1: a well-formed message with absent or null id, sent as a single body
\* without streaming, gets no response whatever its method: the call gives
\* null whenever it returns; it ends otherwise only where a document read
\* fails (resources/read, prompts/get), where the catch block of tools/call
\* fails, or where a tool handler never settles.
C1_NotificationGetsNoResponse ==
  (SingleMessage /\ IdAbsentOrNull(Parsed.v)) =>
    /\ last.kind \in {"null", "throw", "pending"}
    /\ last.kind = "throw" =>
         last.labels \in {<<"resources/read">>, <<"prompts/get">>, <<"tools/call">>}
    /\ last.kind = "pending" => last.labels = <<"tools/call">>

\* C1 witness: a tools/call without id whose handler ran, answered with null
C1_Witness ==
  /\ last.op = "processRequest"
  /\ last.kind = "null"
  /\ last.request.raw = Stringify(CallOf(Undef, "plain", "good"))
  /\ last.invoked = <<"plain">>

\* C2: for a batch of messages the returned array holds exactly one
\* response per entry with a non-null id, none for the others, in the order
\* of the requests.
C2_BatchOneResponsePerRequest ==
  BatchOfMessages =>
    /\ last.kind \in {"batch", "null"}
    /\ IdsOf(last.responses) = IdsOf(WithId(Parsed.v.elems))

\* C2 witness: a batch of two entries with ids, answered with one response
C2_Witness ==
  /\ last.op = "processRequest"
  /\ last.request.raw =
       Stringify(Arr(<<Req("1", M2("notifications", "initialized")), Ping("2")>>))
  /\ last.kind = "batch"
  /\ IdsOf(last.responses) = <<"2">>

\* the arguments of the single tools/call sent, as the handler receives them
CallArgs ==
  LET args == Parsed.v.params.arguments
  IN IF args = Undef \/ args = JNull THEN "{}" ELSE args

\* the descriptor the call names in the table the exchange found (0: none)
CalledTool ==
  FindIndex([i \in 1..Len(last.pre.tools) |->
               last.pre.tools[i].name = Parsed.v.params.name])

\* a single tools/call whose arguments the input schema of the tool rejects
RejectedCall ==
  /\ SingleMessage
  /\ NormalForm(Parsed.v.method) = M2("tools", "call")
  /\ Parsed.v.params.k = "object"
  /\ CalledTool # 0
  /\ last.pre.tools[CalledTool].inputSchema.k # "undefined"
  /\ CallArgs \notin last.pre.tools[CalledTool].inputSchema.accepts

\* C3: a tools/call whose arguments fail the input schema of the tool is
\* answered with error -32602 (a notification with nothing) and the handler
\* of the tool is not invoked.
C3_InvalidInputRejected ==
  RejectedCall =>
    /\ last.invoked = <<>>
    /\ IF IdAbsentOrNull(Parsed.v) THEN last.kind = "null"
       ELSE last.kind = "response" /\ IsError(last.response, INVALID_PARAMS)

\* C3 witness: joi-sum called with arguments its validate() reports as an
\* error
C3_Witness ==
  /\ RejectedCall
  /\ Parsed.v.params.name = "joi-sum"
  /\ last.kind = "response"
  /\ IsError(last.response, INVALID_PARAMS)
  /\ last.response.id = "1"

\* C4: whatever the body, processRequest settles with a response or with
\* "no response": it never throws or rejects.
C4_DispatcherNeverFails ==
  last.op = "processRequest" => last.kind # "throw"

\* C4 witness: the body null makes processRequest reject
C4_Witness ==
  /\ last.op = "processRequest"
  /\ last.request.raw = Stringify(JNullValue)
  /\ last.kind = "throw"

\* C5: in streaming mode no frame is written for a message whose id is
\* absent or null.
C5_NoFrameForNotification ==
  last.op = "stream" =>
    \A i \in 1..Len(last.frames) :
      (last.frames[i].of.ok /\ WellFormed(last.frames[i].of.v))
        => ~IdAbsentOrNull(last.frames[i].of.v)

\* C5 witness: a ping without id, streamed, is answered with a frame whose
\* id is null
C5_Witness ==
  /\ last.op = "stream"
  /\ last.request.raw = Text(Ping(Undef))
  /\ Len(last.frames) = 1
  /\ last.frames[1].payload = Success(JNull, [k |-> "empty"])

\* a batch whose entries are all notifications (the empty batch included)
BatchOfNotifications ==
  /\ BatchOfMessages
  /\ \A i \in 1..Len(Parsed.v.elems) : IdAbsentOrNull(Parsed.v.elems[i])

\* C6: a batch that yields no responses is reported as "no response": the
\* dispatcher never returns an empty array; a batch of notifications, the
\* empty batch included, gives null whenever its processing returns, and
\* null is sent as 202 over HTTP.
C6_EmptyBatchIsNoResponse ==
  ViaHandleRequest =>
    /\ last.kind = "batch" => Len(last.responses) > 0
    /\ BatchOfNotifications => last.kind \in {"null", "throw", "pending"}
    /\ (last.op = "post" /\ last.kind = "null") => last.status = 202

\* C6 witness: a POST of a batch of two notifications, both dispatched, is
\* answered with 202
C6_Witness ==
  /\ last.op = "post"
  /\ last.request.raw = Stringify(Arr(<<Ping(Undef), Req(JNull, M2("foo", "bar"))>>))
  /\ last.labels = <<"ping", "default">>
  /\ last.kind = "null"
  /\ last.status = 202

\* the answer is exactly one parse error with id null, and no handler ran
OnlyParseError(response) ==
  /\ IsError(response, PARSE_ERROR)
  /\ response.id = JNull
  /\ last.labels = <<>>
  /\ last.invoked = <<>>

\* the segments of a streamed body that are no JSON text
BrokenSegments(raw) ==
  LET Broken(segment) == ~JSONparse(segment).ok
  IN SelectSeq(splitJsonRpcRequests(raw), Broken)

ParseErrorFrames(frames) ==
  LET Broken(frame) == ~frame.of.ok IN SelectSeq(frames, Broken)

C8_NotJsonRpc2IsInvalidRequest ==
  (ViaHandleRequest /\ Parsed.ok /\ Parsed.v.t # "array"
     /\ ~(Parsed.v.t = "object" /\ Parsed.v.jsonrpc = "2.0")) =>
    /\ last.kind = "response"
    /\ IsError(last.response, INVALID_REQUEST)
    /\ last.labels = <<>>

\* C8 witness: the value null is not answered at all
C8_Witness ==
  /\ ViaHandleRequest
  /\ Parsed.ok
  /\ Parsed.v = JNullValue
  /\ last.kind = "throw"
  /\ last.labels = <<>>

\* a single request, with an id, whose normalized method is not supported
UnknownMethodRequest ==
  /\ SingleMessage
  /\ ~IdAbsentOrNull(Parsed.v)
  /\ NormalForm(Parsed.v.method) \notin SupportedMethods

\* C9: a request whose normalized method is not supported is answered with
\* error -32601 whose data carries the method as sent and the normalized
\* method; resources/templates/list and completion/complete are answered so
\* whatever the manifest says.
C9_UnknownMethodNotFound ==
  UnknownMethodRequest =>
    /\ last.kind = "response"
    /\ IsError(last.response, METHOD_NOT_FOUND)
    /\ last.response.id = Parsed.v.id
    /\ last.response.error.data.k = "method"
    /\ last.response.error.data.method = Parsed.v.method
    /\ last.response.error.data.normalized = NormalForm(Parsed.v.method)
    /\ last.labels = <<"default">>

\* C9 witness: resources.templates.list on a server whose manifest enables
\* no optional method
C9_Witness ==
  /\ UnknownMethodRequest
  /\ last.pre.manifest.methods = {}
  /\ Parsed.v.method = Str(<<"resources", ".", "templates", ".", "list">>)
  /\ IsError(last.response, METHOD_NOT_FOUND)
  /\ last.response.error.data.normalized = M3("resources", "templates", "list")

\* a single message whose method holds a dot and no slash
DottedMessage ==
  /\ SingleMessage
  /\ Includes(Parsed.v.method.s, ".")
  /\ ~Includes(Parsed.v.method.s, "/")

\* what the server the exchange found answers to the same message with the
\* dots of its method replaced by slashes
SlashTwin ==
  handleRequest(Stringify([Parsed.v EXCEPT !.method = Slashed(Parsed.v.method)]),
                last.pre, last.request.beh, last.request.elapsed)

\* a response without the member error.data.method
WithoutRawMethod(response) ==
  IF response.error.data.k = "method"
    THEN [response EXCEPT !.error.data.method = NoMethod]
    ELSE response

\* C10, as stated: a request whose method holds dots and no slash gets the
\* response of the same request with the dots replaced by slashes.
C10_DottedSameResponse ==
  DottedMessage =>
    /\ last.kind = SlashTwin.kind
    /\ last.response = SlashTwin.response

\* C10, amended: the two requests are handled alike (same outcome, same
\* handler, same tool invoked) and get the same response when the slash
\* form is a supported method; when it is not, both get
\* error -32601 and the responses differ in error.data.method only, which
\* carries the method as sent.
C10_DottedSameHandling ==
  DottedMessage =>
    /\ last.kind = SlashTwin.kind
    /\ last.labels = SlashTwin.labels
    /\ last.invoked = SlashTwin.invoked
    /\ IF Slashed(Parsed.v.method) \in SupportedMethods
         THEN last.response = SlashTwin.response
         ELSE /\ WithoutRawMethod(last.response) = WithoutRawMethod(SlashTwin.response)
              /\ last.kind = "response" =>
                   /\ IsError(last.response, METHOD_NOT_FOUND)
                   /\ last.response.error.data.method = Parsed.v.method
                   /\ SlashTwin.response.error.data.method = Slashed(Parsed.v.method)

\* C10 witness: tools.call answered like tools/call, the handler invoked
C10_Witness ==
  /\ DottedMessage
  /\ Parsed.v.method = Str(<<"tools", ".", "call">>)
  /\ last.pre.tools # <<>>
  /\ last.kind = "response"
  /\ last.invoked = <<"smart-hello">>
  /\ last.response = SlashTwin.response

\* a single tools/call, sent through handleRequest, that names a tool of the
\* table the exchange found
ToolCall ==
  /\ SingleMessage
  /\ NormalForm(Parsed.v.method) = M2("tools", "call")
  /\ Parsed.v.params.k = "object"
  /\ CalledTool # 0

TheTool == last.pre.tools[CalledTool]

\* the call passes the input schema, so the module of the tool is loaded
LoadedCall == ToolCall /\ ~RejectedCall

\* the call reaches a handler that is an async function
InvokedCall == LoadedCall /\ last.request.beh.load = "async"

\* the response is a success envelope that carries a tool result
ToolResultResponse ==
  /\ last.kind = "response"
  /\ last.response.has = {"result"}
  /\ last.response.result.k = "tool"

\* the text of the tool result
ResultText == last.response.result.content[1].text

\* the response is a tool-level error: a success envelope, isError true
ToolLevelError == ToolResultResponse /\ last.response.result.isError

Mentions(text, piece) == \E i \in 1..Len(text) : text[i] = piece

\* the timeout is armed: a finite, positive number of milliseconds
TimeoutArmed ==
  last.pre.toolTimeoutMs.finite /\ last.pre.toolTimeoutMs.ms > 0

\* C11: when the handler of a tool has not settled as the configured
\* timeout elapses, the call is answered all the same, with a success
\* envelope whose result has isError true and whose text names the tool and
\* the bound (a call without id is answered with nothing).
C11_TimeoutGivesToolError ==
  (InvokedCall /\ last.request.beh.settle = "never" /\ TimeoutArmed) =>
    /\ last.invoked = <<TheTool.name>>
    /\ IF IdAbsentOrNull(Parsed.v) THEN last.kind = "null"
       ELSE /\ ToolLevelError
            /\ last.response.id = Parsed.v.id
            /\ Mentions(ResultText, TheTool.name)
            /\ Mentions(ResultText, " timed out after ")
            /\ Mentions(ResultText, ToString(last.pre.toolTimeoutMs.ms))

\* C11 witness: with DZX_TOOL_TIMEOUT_MS=250 the handler of plain never
\* settles and the call is answered with the timeout text
C11_Witness ==
  /\ InvokedCall
  /\ last.request.beh.settle = "never"
  /\ config.DZX_TOOL_TIMEOUT_MS = "250"
  /\ TheTool.name = "plain"
  /\ ToolLevelError
  /\ ResultText = <<"plain", " timed out after ", "250", "ms">>

\* C12: whatever DZX_TOOL_TIMEOUT_MS is set to, a tools/call whose handler
\* never settles gets its response: the call does not stay pending.
C12_ExecutionAlwaysBounded ==
  (InvokedCall /\ last.request.beh.settle = "never") => last.kind # "pending"

\* C12 witness: with DZX_TOOL_TIMEOUT_MS=-5 the call stays pending
C12_Witness ==
  /\ InvokedCall
  /\ last.request.beh.settle = "never"
  /\ config.DZX_TOOL_TIMEOUT_MS = "-5"
  /\ last.pre.toolTimeoutMs = Finite(-5)
  /\ last.kind = "pending"

\* the tool requires structured output: its output schema has a source
\* other than "default"
RequiresStructured ==
  TheTool.outputSchemaSource # Undef /\ TheTool.outputSchemaSource # "default"

\* C13: when the output schema of the tool has a source other than default
\* and the handler resolves to undefined, the response is a success envelope
\* whose result has isError true and whose text mentions "structured output
\* required" (a call without id is answered with nothing).
C13_UndefinedOutputIsToolError ==
  (InvokedCall /\ RequiresStructured
     /\ last.request.beh.settle = "resolves" /\ last.request.beh.output = Undef) =>
    IF IdAbsentOrNull(Parsed.v) THEN last.kind = "null"
    ELSE /\ ToolLevelError
         /\ last.response.id = Parsed.v.id
         /\ Mentions(ResultText, "structured output required for ")
         /\ Mentions(ResultText, TheTool.name)

\* C13 witness: the handler of smart-hello (output schema from a schema
\* export) resolves to undefined
C13_Witness ==
  /\ InvokedCall
  /\ TheTool.name = "smart-hello"
  /\ TheTool.outputSchemaSource = "schema"
  /\ last.request.beh.settle = "resolves"
  /\ last.request.beh.output = Undef
  /\ ToolLevelError
  /\ last.invoked = <<"smart-hello">>
  /\ Mentions(ResultText, "structured output required for ")

\* loading the module or invoking the handler raises an exception
RaisedCall ==
  /\ LoadedCall
  /\ \/ last.request.beh.load = "throws"
     \/ /\ last.request.beh.load = "async"
        /\ last.request.beh.settle \in {"rejects", "rejects_empty", "rejects_nullish"}

\* the message of the exception raised (Undef: the value raised has none)
RaisedMessage ==
  CASE last.request.beh.load = "throws" -> <<"import failed">>
    [] last.request.beh.settle = "rejects" -> <<"handler error">>
    [] last.request.beh.settle = "rejects_empty" -> <<>>
    [] OTHER -> Undef

\* C14: an exception raised while loading or invoking the handler becomes a
\* tool-level error result whose text is the message of the exception,
\* never a protocol error or a failure of the request (a call without id is
\* answered with nothing).
C14_ExceptionIsToolError ==
  RaisedCall =>
    IF IdAbsentOrNull(Parsed.v) THEN last.kind = "null"
    ELSE /\ ToolLevelError
         /\ last.response.id = Parsed.v.id
         /\ RaisedMessage # Undef => ResultText = RaisedMessage

\* C14 witness: the handler rejects with null and the request itself fails
C14_Witness ==
  /\ last.op = "processRequest"
  /\ RaisedCall
  /\ last.request.beh.settle = "rejects_nullish"
  /\ last.invoked = <<TheTool.name>>
  /\ last.kind = "throw"

\* a single tools/call with an id that names a tool the table does not hold
UnknownToolCall ==
  /\ SingleMessage
  /\ ~IdAbsentOrNull(Parsed.v)
  /\ NormalForm(Parsed.v.method) = M2("tools", "call")
  /\ Parsed.v.params.k = "object"
  /\ Parsed.v.params.name \notin {Undef, NotString, ""}
  /\ CalledTool = 0

\* C15: a tools/call that names a tool the descriptor table does not hold
\* is answered with error -32601 and no handler is invoked.
C15_UnknownToolIsNotFound ==
  UnknownToolCall =>
    /\ last.kind = "response"
    /\ IsError(last.response, METHOD_NOT_FOUND)
    /\ last.invoked = <<>>

\* C15 witness: the call of nosuch on an initialized server is answered
\* with -32602
C15_Witness ==
  /\ UnknownToolCall
  /\ last.pre.tools # <<>>
  /\ Parsed.v.params.name = "nosuch"
  /\ IsError(last.response, INVALID_PARAMS)
  /\ last.response.error.message = <<"unknown tool">>
  /\ last.invoked = <<>>

\* C16: a module without a callable default export and a default export
\* that is no async function are both answered with error -32601, each with
\* a message of its own, and the export is not invoked (a call without id
\* is answered with nothing).
C16_HandlerContractErrors ==
  (LoadedCall /\ last.request.beh.load \in {"no_default", "not_async"}) =>
    /\ last.invoked = <<>>
    /\ IF IdAbsentOrNull(Parsed.v) THEN last.kind = "null"
       ELSE /\ last.kind = "response"
            /\ IsError(last.response, METHOD_NOT_FOUND)
            /\ last.response.id = Parsed.v.id
            /\ last.response.error.message = <<"tool handler not found">>
                 <=> last.request.beh.load = "no_default"
            /\ last.response.error.message = <<"tool handler must be async">>
                 <=> last.request.beh.load = "not_async"

\* C16 witness: the default export of smart-hello is a plain function
C16_Witness ==
  /\ LoadedCall
  /\ TheTool.name = "smart-hello"
  /\ last.request.beh.load = "not_async"
  /\ IsError(last.response, METHOD_NOT_FOUND)
  /\ last.response.error.message = <<"tool handler must be async">>
  /\ last.invoked = <<>>

\* the schema cache as the input validation of the call leaves it
CacheAfterInput ==
  IF TheTool.inputSchema.k # "undefined"
    THEN validateSchema(TheTool.inputSchema, CallArgs, last.pre.schemaCache).cache
    ELSE last.pre.schemaCache

\* the handler resolves to a value the call reports as an error: structured
\* output is missing or the output schema rejects the value
BadOutput ==
  /\ last.request.beh.settle = "resolves"
  /\ \/ RequiresStructured /\ last.request.beh.output = Undef
     \/ ~OutputCheck(TheTool, last.request.beh.output, CacheAfterInput).ok

\* a tools/call that fails on the tool it names: input validation, handler
\* contract, timeout, structured output, output validation or an exception
FailedCall ==
  /\ ToolCall
  /\ \/ RejectedCall
     \/ LoadedCall /\ last.request.beh.load \in {"no_default", "not_async"}
     \/ RaisedCall
     \/ InvokedCall /\ last.request.beh.settle = "never" /\ TimeoutArmed
     \/ InvokedCall /\ BadOutput

\* C17: every tools/call failure that concerns a tool sets lastError of the
\* metrics of that tool, and its timestamp.
C17_FailureSetsLastError ==
  FailedCall =>
    /\ TheTool.name \in DOMAIN metrics.tools
    /\ metrics.tools[TheTool.name].lastError # <<>>
    /\ metrics.tools[TheTool.name].lastErrorAt = last.pre.now

\* C17 witness: the handler of smart-hello rejects with null and the
\* metrics of the tool record neither the call nor an error
C17_Witness ==
  /\ FailedCall
  /\ TheTool.name = "smart-hello"
  /\ last.request.beh.settle = "rejects_nullish"
  /\ last.invoked = <<"smart-hello">>
  /\ metrics.tools["smart-hello"].calls = 0
  /\ metrics.tools["smart-hello"].lastError = <<>>

\* the newest n elements of a sequence, in order
Newest(s, n) == SubSeq(s, Len(s) - n + 1, Len(s))

Min(a, b) == IF a < b THEN a ELSE b

\* C18: the latency window of a tool never holds more than 50 samples: it
\* holds the durations of the most recent min(calls, 50) calls, in call
\* order, the oldest being dropped when a call is recorded on a full window.
C18_WindowHoldsNewestCalls ==
  \A t \in DOMAIN metrics.tools :
    /\ Len(metrics.tools[t].samples) <= MAX_LATENCY_SAMPLES
    /\ metrics.tools[t].calls = Len(metrics.tools[t].recorded)
    /\ metrics.tools[t].samples =
         Newest(metrics.tools[t].recorded,
                Min(metrics.tools[t].calls, MAX_LATENCY_SAMPLES))

\* C18 witness: after 52 calls the window holds 50 samples, the newest last,
\* and the two oldest durations are gone
C18_Witness ==
  /\ metrics.tools[WindowTool].calls = MAX_LATENCY_SAMPLES + 2
  /\ Len(metrics.tools[WindowTool].samples) = MAX_LATENCY_SAMPLES
  /\ metrics.tools[WindowTool].lastMs = 0
  /\ metrics.tools[WindowTool].samples[MAX_LATENCY_SAMPLES] = 0
  /\ metrics.tools[WindowTool].samples[MAX_LATENCY_SAMPLES - 1] = 1
  /\ metrics.tools[WindowTool].samples[1] = metrics.tools[WindowTool].recorded[3]
  /\ metrics.tools[WindowTool].samples[1] # metrics.tools[WindowTool].recorded[2]

\* the values the latest exchange handles one by one: the entries of a
\* batch, or the segments of a streamed body that parse
Entries ==
  IF last.op = "stream"
    THEN LET bodies == splitJsonRpcRequests(last.request.raw)
             Good(body) == JSONparse(body).ok
         IN [i \in 1..Len(SelectSeq(bodies, Good)) |->
               JSONparse(SelectSeq(bodies, Good)[i]).v]
    ELSE Parsed.v.elems

\* the exchange handles several values in a loop
Looped ==
  \/ last.op = "stream"
  \/ ViaHandleRequest /\ Parsed.ok /\ Parsed.v.t = "array"
       /\ StartsWith(Trim(last.request.raw), "[")

\* how entry i ends when handled on its own, and what it is filed under
Alone(i) ==
  handleSingle(Entries[i], last.pre, last.request.beh, last.request.elapsed)

\* the first entry that does not return (one past the last when all do)
FirstOpen ==
  IF \E i \in 1..Len(Entries) : Alone(i).end # "return"
    THEN CHOOSE i \in 1..Len(Entries) :
           Alone(i).end # "return" /\ \A j \in 1..(i - 1) : Alone(j).end = "return"
    ELSE Len(Entries) + 1

RECURSIVE LabelsUpTo(_)
LabelsUpTo(n) == IF n = 0 THEN <<>> ELSE LabelsUpTo(n - 1) \o Labels(Alone(n))

RECURSIVE InvokedUpTo(_)
InvokedUpTo(n) == IF n = 0 THEN <<>> ELSE InvokedUpTo(n - 1) \o Alone(n).invoked

\* C19: the entries of a batch and the messages of a streamed body are
\* handled one at a time in input order: entry k+1 is not started before
\* entry k has given its outcome, so the entries handled are those up to the
\* first one that does not return, in input order, and nothing after it.
C19_EntriesHandledInOrder ==
  Looped =>
    /\ last.labels = LabelsUpTo(Min(FirstOpen, Len(Entries)))
    /\ last.invoked = InvokedUpTo(Min(FirstOpen, Len(Entries)))
    /\ FirstOpen <= Len(Entries) => last.kind = Alone(FirstOpen).end

\* C19 witness: a batch whose first entry calls a handler that never settles,
\* with the timeout disabled: the two entries after it are not handled
C19_Witness ==
  /\ last.op = "post"
  /\ Looped
  /\ Len(Entries) = 3
  /\ FirstOpen = 1
  /\ last.kind = "pending"
  /\ last.labels = <<"tools/call">>
  /\ last.invoked = <<"plain">>

MidDiscovery ==
  \E k \in 1..Len(inits) :
    /\ inits[k].at = "import"
    /\ Len(inits[k].found) \in 1..(Len(ToolTable) - 1)

\* the three tables as one discovery leaves them
Discovered == <<ToolTable, discoverResources(files), discoverPrompts(files)>>

\* C21: however request handling and (re-)discovery interleave, the tables
\* of the runtime are the empty tables of a server that has not discovered
\* yet or the complete result of one discovery, a request handler finds the
\* tool table empty or complete, and the only change the tool table ever
\* undergoes is its replacement by a complete discovery result.
C21_TablesReplacedWholesale ==
  /\ [](/\ <<tools, resources, prompts>> \in {<<<<>>, <<>>, <<>>>>, Discovered}
        /\ last.op = "processRequest" => last.pre.tools \in {<<>>, ToolTable})
  /\ [][tools' # tools => tools' = ToolTable]_vars

\* a request was answered from the complete table while a later init() call
\* is half way through its imports
C21_Witness ==
  /\ MidDiscovery
  /\ last.op = "processRequest"
  /\ last.pre.tools = ToolTable
  /\ last.kind = "response"
  /\ ~IsError(last.response, INVALID_PARAMS)
  /\ tools = ToolTable

\* the JSON values written one after the other in s from i0 on, whitespace
\* between them, read with the grammar of JSON
RECURSIVE Concatenated(_, _, _)
Concatenated(s, i0, acc) ==
  LET i == SkipWs(s, i0) IN
  IF i > Len(s) THEN [ok |-> TRUE, vs |-> acc]
  ELSE LET r == ParseValue(s, i) IN
       IF ~r.ok THEN [ok |-> FALSE, vs |-> <<>>]
       ELSE Concatenated(s, r.next, Append(acc, r.v))

\* what the streamed body is made of
Requests == Concatenated(last.request.raw, 1, <<>>)

\* the streamed body is n >= 1 request objects written one after the other
StreamOfRequests ==
  /\ last.op = "stream"
  /\ Requests.ok
  /\ Len(Requests.vs) >= 1
  /\ \A i \in 1..Len(Requests.vs) :
       WellFormed(Requests.vs[i]) /\ ~IdAbsentOrNull(Requests.vs[i])

\* the scanner cuts the streamed body into its n requests
SplitIntoRequests ==
  LET bodies == splitJsonRpcRequests(last.request.raw) IN
  /\ Len(bodies) = Len(Requests.vs)
  /\ \A i \in 1..Len(bodies) :
       JSONparse(bodies[i]) = ParseOk(Requests.vs[i], Len(bodies[i]) + 1)

\* C22: a streamed body of n request objects written one after the other is
\* cut into these n requests, and n frames are written, the i-th answering
\* the i-th request.
C22_OneFramePerStreamedRequest ==
  StreamOfRequests =>
    /\ SplitIntoRequests
    /\ Len(last.frames) = Len(Requests.vs)
    /\ \A i \in 1..Len(last.frames) :
         /\ last.frames[i].of = [ok |-> TRUE, v |-> Requests.vs[i]]
         /\ last.frames[i].payload.id = Requests.vs[i].id

\* C22 witness: the request notifications/initialized that carries an id is
\* cut out of the body and gets no frame
C22_Witness ==
  /\ StreamOfRequests
  /\ SplitIntoRequests
  /\ last.request.raw = Text(Req("1", M2("notifications", "initialized")))
  /\ last.kind = "return"
  /\ last.frames = <<>>

\* the cases of C22 that none of the defects of handleSingle touches: the
\* loop has returned and no request is one of the notifications/* methods
\* that are never answered
UntouchedStream ==
  /\ StreamOfRequests
  /\ last.kind = "return"
  /\ \A i \in 1..Len(Requests.vs) :
       normalizeMethod(Requests.vs[i].method)
         \notin {M2("notifications", "initialized"),
                 M2("notifications", "cancelled"),
                 M2("notifications", "canceled")}

\* on these cases the statement of C22 holds
StreamedRequestsFramed == UntouchedStream => C22_OneFramePerStreamedRequest

\* three requests whose texts hold braces, brackets and escaped quotes are
\* cut apart and answered in order
NoisyStreamFramed ==
  /\ UntouchedStream
  /\ Len(Requests.vs) = 3
  /\ Len(last.request.raw) > Len(Text(Ping("1"))) * 3 + 2
  /\ IdsOf(Requests.vs) = <<"1", "2", "3">>
  /\ Len(last.frames) = 3

\* the streamed body is an array of messages
StreamedBatch ==
  /\ last.op = "stream"
  /\ Parsed.ok
  /\ Parsed.v.t = "array"
  /\ Len(Parsed.v.elems) >= 1
  /\ \A i \in 1..Len(Parsed.v.elems) : WellFormed(Parsed.v.elems[i])

\* C23: in streaming mode too an array is handled entry by entry: the frames
\* written are the responses to its entries that carry an id, in the order
\* of the entries.
C23_StreamedArrayIsBatch ==
  StreamedBatch =>
    /\ last.kind = "return"
    /\ Len(last.frames) = Len(WithId(Parsed.v.elems))
    /\ \A i \in 1..Len(last.frames) :
         last.frames[i].payload.id = WithId(Parsed.v.elems)[i].id

\* C23 witness: the array [ping 1, ping, ping 2] is streamed and answered
\* with one frame, an Invalid Request error whose id is null
C23_Witness ==
  /\ StreamedBatch
  /\ Parsed.v.elems = <<Ping("1"), Ping(Undef), Ping("2")>>
  /\ last.kind = "return"
  /\ Len(last.frames) = 1
  /\ IsError(last.frames[1].payload, INVALID_REQUEST)
  /\ last.frames[1].payload.id = JNull
  /\ last.labels = <<>>

\* the latest exchange is an initialize request that was answered
InitializeAnswered ==
  /\ SingleMessage
  /\ normalizeMethod(Parsed.v.method) = M1("initialize")
  /\ last.kind = "response"
  /\ last.response.has = {"result"}

\* the version the client asks for: a non-empty string under
\* params.protocolVersion (Undef when there is none)
ClientVersion ==
  LET params == Parsed.v.params IN
  IF params.k = "object" /\ params.protocolVersion \notin {Undef, JNull, NotString, ""}
    THEN params.protocolVersion ELSE Undef

EnabledCall(toggle, method) ==
  /\ SingleMessage
  /\ toggle \in config.manifest.methods
  /\ normalizeMethod(Parsed.v.method) = method

\* C25: an optional method that the manifest enables is served with its
\* documented result: resources/templates/list with {resourceTemplates: []},
\* completion/complete with {completion: {values: [], hasMore: false}},
\* initialize advertising capabilities.completions, and a
\* notifications/complete notification accepted without a response.
C25_EnabledOptionalMethodsServed ==
  /\ (EnabledCall("resourcesTemplatesList", M3("resources", "templates", "list"))
        /\ ~IdAbsentOrNull(Parsed.v))
       => /\ last.kind = "response"
          /\ last.response.has = {"result"}
          /\ last.response.result.k = "resourceTemplates"
  /\ (EnabledCall("completionComplete", M2("completion", "complete"))
        /\ ~IdAbsentOrNull(Parsed.v))
       => /\ last.kind = "response"
          /\ last.response.has = {"result"}
          /\ last.response.result.k = "completion"
  /\ (EnabledCall("completionComplete", M1("initialize")) /\ last.kind = "response")
       => "completions" \in last.response.result.capabilities
  /\ (EnabledCall("notificationsComplete", M2("notifications", "complete"))
        /\ IdAbsentOrNull(Parsed.v))
       => last.kind = "null"

\* C25 witness: the manifest enables resources/templates/list and the
\* request is answered with method not found
C25_Witness ==
  /\ EnabledCall("resourcesTemplatesList", M3("resources", "templates", "list"))
  /\ Parsed.v.id = "1"
  /\ last.kind = "response"
  /\ IsError(last.response, METHOD_NOT_FOUND)

\* what a tool module offers in one direction, in the order of priority
\* explicit export, doc comment, signature, default
Candidates(mod, direction) ==
  LET Pick(r) == IF direction = "input" THEN r.inputSchema ELSE r.outputSchema
  IN << Resolved(IF mod.schemaExport.k # "object" THEN Undef
                 ELSE IF direction = "input" THEN mod.schemaExport.input
                 ELSE mod.schemaExport.output, "schema"),
        Resolved(IF mod.docBlock.k = "inferred" THEN Pick(mod.docBlock) ELSE Undef,
                 "jsdoc"),
        Resolved(Pick(mod.signature), "signature"),
        Resolved(IF direction = "input" THEN "defaultInputSchema"
                 ELSE "defaultOutputSchema", "default") >>

\* the first candidate that is there
FirstAvailable(candidates) ==
  candidates[CHOOSE k \in 1..Len(candidates) :
               /\ candidates[k].schema # Undef
               /\ \A j \in 1..(k - 1) : candidates[j].schema = Undef]

\* the schemas of a tool file have been resolved
SchemasResolved == subject \in ToolModules /\ value # NoSubject

\* C26: in each direction the descriptor gets the schema of the first source
\* that offers one, in the order explicit export, doc comment, signature,
\* default, and records that source.
C26_SchemaPriority ==
  SchemasResolved =>
    /\ Resolved(value.inputSchema, value.inputSchemaSource)
         = FirstAvailable(Candidates(subject, "input"))
    /\ Resolved(value.outputSchema, value.outputSchemaSource)
         = FirstAvailable(Candidates(subject, "output"))

\* C26 witness: the export has an input schema only and the doc block yields
\* both schemas: the input schema is the exported one, the output schema the
\* one of the doc block
C26_Witness ==
  /\ SchemasResolved
  /\ subject.schemaExport = SchemaExport("object", "schema.input", Undef)
  /\ subject.docBlock = Inferred("jsdoc input", "jsdoc output")
  /\ value.inputSchema = "schema.input"
  /\ value.inputSchemaSource = "schema"
  /\ value.outputSchema = "jsdoc output"
  /\ value.outputSchemaSource = "jsdoc"

\* where the line that begins at piece i of the document ends: the index of
\* its "\n", or one past the end of the document when it is the last line
RECURSIVE LineEnd(_, _)
LineEnd(content, i) ==
  IF i > Len(content) \/ content[i] = "\n" THEN i ELSE LineEnd(content, i + 1)

\* the line that begins at piece i holds the delimiter and blanks only
DelimiterLine(content, i) ==
  LET line == SubSeq(content, i, LineEnd(content, i) - 1) IN
  /\ \E k \in 1..Len(line) :
       /\ line[k] = "---"
       /\ \A j \in 1..Len(line) : j # k => line[j] \in {" ", "\r"}

\* the first piece after the frontmatter block when the line that begins at
\* piece i is looked at: the piece after the first delimiter line (0: none)
RECURSIVE AfterBlock(_, _)
AfterBlock(content, i) ==
  IF i > Len(content) THEN 0
  ELSE IF DelimiterLine(content, i) THEN LineEnd(content, i) + 1
  ELSE AfterBlock(content, LineEnd(content, i) + 1)

\* the document has been parsed and begins with a frontmatter block: a
\* first line "---" and a closing delimiter line
BlockParsed ==
  /\ subject \in Documents
  /\ value # NoSubject
  /\ DelimiterLine(subject, 1)
  /\ AfterBlock(subject, LineEnd(subject, 1) + 1) # 0

\* the document without its frontmatter block
Remainder ==
  SubSeq(subject, AfterBlock(subject, LineEnd(subject, 1) + 1), Len(subject))

\* C27: the body of a document that begins with a frontmatter block is the
\* document without that block, piece by piece.
C27_BodyIsRemainder == BlockParsed => value.body = Remainder

\* C27 witness: the body "\r\n" after an empty block comes back as "\n"
C27_Witness ==
  /\ BlockParsed
  /\ subject = <<"---", "\n", "---", "\n", "\r", "\n">>
  /\ Remainder = <<"\r", "\n">>
  /\ value.body = <<"\n">>

\* the body of the document holds no "\r\n"
NoCRLFInBody ==
  \A i \in 1..(Len(Remainder) - 1) : ~(Remainder[i] = "\r" /\ Remainder[i + 1] = "\n")

\* without "\r\n" in the body the statement of C27 holds
BodyKeptWithoutCRLF == (BlockParsed /\ NoCRLFInBody) => value.body = Remainder

\* a type expression has been parsed
TypeParsed == subject \in TypeStrings /\ value # NoSubject

\* the kinds of schema nodes parseTypeString builds
NodeKinds ==
  {"const", "empty", "type", "additionalProperties", "uniqueItems", "anyOf",
   "allOf", "array", "tuple", "object"}

\* a schema node all of whose sub-schemas are schema nodes, and the number
\* of levels of such a node
RECURSIVE IsNode(_)
IsNode(n) ==
  /\ n.k \in NodeKinds
  /\ n.k = "type" =>
       n.v \in {<<"object">>, <<"string">>, <<"number">>, <<"boolean">>,
                <<"null">>, <<"integer">>, <<"string", "date-time">>}
  /\ Len(n.keys) = IF n.k = "object" THEN Len(n.items) ELSE 0
  /\ \A i \in 1..Len(n.items) : IsNode(n.items[i])

RECURSIVE Levels(_)
Levels(n) ==
  IF n.items = <<>> THEN 1
  ELSE 1 + Levels(n.items[CHOOSE i \in 1..Len(n.items) :
                            \A j \in 1..Len(n.items) :
                              Levels(n.items[j]) <= Levels(n.items[i])])

\* an expression without any construct the parser knows: names that are no
\* type of its own and angle brackets that belong to no generic
Unrecognized(type) == \A i \in 1..Len(type) : type[i] \in {"Foo", "<", ">", " "}

\* C28: whatever the expression, parseTypeString returns a schema node, built
\* in no more nested calls than the expression has pieces, and the node of an
\* expression without any known construct is the string primitive.
C28_TypeParserTotal ==
  TypeParsed =>
    /\ IsNode(value)
    /\ Levels(value) <= Len(subject) + 1
    /\ Unrecognized(subject) => value = Leaf("type", <<"string">>)

\* C28 witness: an unbalanced expression has been parsed to the string
\* primitive
C28_Witness ==
  /\ TypeParsed
  /\ subject = <<"<", "Foo", "<">>
  /\ value = Leaf("type", <<"string">>)

\* splitting at the delimiters that stand outside every bracket and outside
\* every quoted literal, from input[i] on: the parts, and whether the
\* brackets and the quotes are balanced
RECURSIVE AwareLoop(_, _, _, _, _, _, _, _)
AwareLoop(input, i, current, depth, quote, parts, nested, delimiters) ==
  IF i > Len(input)
    THEN [parts |-> IF TrimLine(current) # <<>>
                      THEN Append(parts, TrimLine(current)) ELSE parts,
          nested |-> nested /\ depth = 0 /\ quote = ""]
  ELSE LET char == input[i] IN
       IF quote # ""
         THEN AwareLoop(input, i + 1, Append(current, char), depth,
                        IF char = quote THEN "" ELSE quote, parts, nested,
                        delimiters)
       ELSE IF char \in {"\"", "'"}
         THEN AwareLoop(input, i + 1, Append(current, char), depth, char, parts,
                        nested, delimiters)
       ELSE LET now == IF char \in {"{", "[", "<", "("} THEN depth + 1
                       ELSE IF char \in {"}", "]", ">", ")"} THEN depth - 1
                       ELSE depth
            IN IF char \in delimiters /\ now = 0
                 THEN AwareLoop(input, i + 1, <<>>, now, quote,
                                IF TrimLine(current) # <<>>
                                  THEN Append(parts, TrimLine(current)) ELSE parts,
                                nested, delimiters)
               ELSE AwareLoop(input, i + 1, Append(current, char), now, quote,
                              parts, nested /\ now >= 0, delimiters)

TopLevel(input, delimiters) ==
  AwareLoop(input, 1, <<>>, 0, "", <<>>, TRUE, delimiters)

\* the expression as written, without the blanks around it
Written == CollapseBlanks(TrimLine(subject))

\* C29: an expression with two or more parts at top-level `|` parses to the
\* union of its parsed parts, and one with two or more parts at top-level
\* `&` (and no top-level `|`) to their intersection, whatever the parts.
C29_TopLevelSplitGivesUnion ==
  (TypeParsed /\ TopLevel(Written, {"|"}).nested) =>
    LET alternatives == TopLevel(Written, {"|"}).parts
        members == TopLevel(Written, {"&"}).parts
    IN /\ Len(alternatives) >= 2
            => value = Over("anyOf", ParseAll(alternatives))
       /\ (Len(alternatives) < 2 /\ Len(members) >= 2)
            => value = Over("allOf", ParseAll(members))

\* C29 witness: the union of a Record and a Set is parsed as a Record whose
\* values have the type written from the comma to the end
C29_Witness ==
  /\ TypeParsed
  /\ subject = Joined(<<"Record", "<", "string", ",", " ", "number", ">">>, "|",
                      <<"Set", "<", "string", ">">>)
  /\ Len(TopLevel(Written, {"|"}).parts) = 2
  /\ value = Over("additionalProperties", <<Leaf("type", <<"string">>)>>)

\* the expressions that neither begin with a generic that is matched before
\* the split nor hold a quoted literal
SplitFirst ==
  /\ Written # <<>> => Written[1] \notin {"Record", "Map", "Set", "Promise"}
  /\ \A i \in 1..Len(Written) : Written[i] \notin {"\"", "'"}

\* on these the statement of C29 holds
UnionWhenSplitFirst == SplitFirst => C29_TopLevelSplitGivesUnion

\* the union of an array generic and an object type is parsed as a union
UnionOfGenerics ==
  /\ TypeParsed
  /\ SplitFirst
  /\ Len(TopLevel(Written, {"|"}).parts) = 2
  /\ value.k = "anyOf"
  /\ value.items[1].k = "array"
  /\ value.items[2].k = "object"

\* the text with every character of a quoted literal, quotes included,
\* replaced by a letter, from input[i] on; and whether every quote is closed
RECURSIVE MaskLoop(_, _, _, _)
MaskLoop(input, i, quote, text) ==
  IF i > Len(input) THEN [text |-> text, closed |-> quote = ""]
  ELSE LET char == input[i] IN
       IF quote # ""
         THEN MaskLoop(input, i + 1, IF char = quote THEN "" ELSE quote,
                       Append(text, "a"))
       ELSE IF char \in {"\"", "'"}
         THEN MaskLoop(input, i + 1, char, Append(text, "a"))
       ELSE MaskLoop(input, i + 1, quote, Append(text, char))

Masked(input) == MaskLoop(input, 1, "", <<>>)

\* where the parts of a split begin and end: the length of each
Shape(parts) == [i \in 1..Len(parts) |-> Len(parts[i])]

\* C30: the splitters are string-literal-aware: a delimiter or a bracket
\* inside a quoted literal has no effect on the split, i.e. the expression
\* is cut where it would be cut if its literals held only letters.
C30_SplittingIsLiteralAware ==
  (TypeParsed /\ Masked(Written).closed) =>
    /\ \A delimiter \in {"|", "&"} :
         Shape(splitByTopLevel(Written, delimiter))
           = Shape(splitByTopLevel(Masked(Written).text, delimiter))
    /\ Shape(splitTopLevel(Written)) = Shape(splitTopLevel(Masked(Written).text))
    /\ Len(splitByTopLevel(Masked(Written).text, "|")) >= 2
         => (value.k = "anyOf"
               => Len(value.items) = Len(splitByTopLevel(Masked(Written).text, "|")))

\* C30 witness: the union of the literals "a|b" and "a" is parsed as a union
\* of three alternatives, the first literal being cut at its `|`
C30_Witness ==
  /\ TypeParsed
  /\ subject = Joined(<<"\"", "a", "|", "b", "\"">>, "|", <<"\"", "a", "\"">>)
  /\ Masked(Written).closed
  /\ Len(splitByTopLevel(Masked(Written).text, "|")) = 2
  /\ splitByTopLevel(Written, "|") = <<<<"\"", "a">>, <<"b", "\"">>, <<"\"", "a", "\"">>>>
  /\ value.k = "anyOf"
  /\ Len(value.items) = 3

\* the literals that hold no delimiter and no bracket
PlainLiterals ==
  \A i \in 1..Len(Written) :
    Masked(Written).text[i] # Written[i] => Written[i] \in {"\"", "'", "a", "b"}

\* with such literals the statement of C30 holds
AwareWithPlainLiterals == PlainLiterals => C30_SplittingIsLiteralAware

\* a union with a plain literal is cut in two
PlainLiteralUnion ==
  /\ TypeParsed
  /\ PlainLiterals
  /\ subject = Joined(<<"\"", "a", "\"">>, "|", <<"string">>)
  /\ value.k = "anyOf"
  /\ Len(value.items) = 2

\* a tools directory was discovered
DirectoryDiscovered == subject \in Directories /\ value # NoSubject

\* the tool files of the directory whose module breaks the tool contract
Invalid ==
  {f \in subject.listing :
     extname(f.file) \in TOOL_FILE_EXTENSIONS /\ f.module # "async"}

\* C31: in strict mode discovery throws, and returns no descriptors, when
\* any tool file has no default export, a default export that is not
\* callable or not async, or a module whose evaluation throws.
C31_StrictDiscoveryFails ==
  (DirectoryDiscovered /\ subject.failOnInvalid /\ Invalid # {}) =>
    /\ value.k = "throw"
    /\ "tools" \notin DOMAIN value

\* C31 witness: a strict discovery of a directory with a valid tool first
\* and a tool that is not async after it has thrown, naming the file
C31_Witness ==
  /\ DirectoryDiscovered
  /\ subject.failOnInvalid
  /\ \E f \in subject.listing : f.module = "async" /\ f.file = <<"a", "-", "b", ".ts">>
  /\ \E f \in Invalid : f.module = "sync"
  /\ value.k = "throw"
  /\ value.message[3] = "default export must be async"

\* the strict discovery of a directory of valid tools returns them all
StrictDiscoveryOfValidTools ==
  /\ DirectoryDiscovered
  /\ subject.failOnInvalid
  /\ Invalid = {}
  /\ value.k = "return"
  /\ Len(value.tools) = 2

\* the names of the tools of the table
TableNames == {tools[i].name : i \in 1..Len(tools)}

\* the tools that have a metrics entry, and those that were called
Measured == DOMAIN metrics.tools
Called == {n \in Measured : metrics.tools[n].calls > 0}

\* C32 as stated: a metrics entry exists only for a tool that was called,
\* and an entry is never removed.
C32_MetricsCreatedOnFirstCall ==
  /\ [](Measured = Called)
  /\ [][Measured \subseteq DOMAIN metrics'.tools]_vars

\* C32, amended: init() creates the metrics entry of every discovered tool,
\* with no call recorded, so that an initialized server has an entry for
\* each tool of its table whether it was called or not; no entry exists for
\* a name that is not in the table; and an entry is never removed nor its
\* call count lowered.
C32_MetricsCreatedByInit ==
  /\ [](initialized => Measured = TableNames)
  /\ [](Measured \subseteq TableNames)
  /\ [][\A n \in Measured :
          /\ n \in DOMAIN metrics'.tools
          /\ metrics'.tools[n].calls >= metrics.tools[n].calls]_vars

\* C32 witness: after init() and one call of a tool, the tool called has
\* one call recorded and the other tools have entries without any call
C32_Witness ==
  /\ initialized
  /\ last.op = "processRequest"
  /\ Cardinality(Called) = 1
  /\ Cardinality(Measured \ Called) = Len(tools) - 1
  /\ \A n \in Measured \ Called : metrics.tools[n] = NewToolMetrics

\* the methods whose case returns no response whatever the id
SilentMethods ==
  {M2("notifications", "initialized"), M2("notifications", "cancelled"),
   M2("notifications", "canceled")}

\* C33: every well-formed message with a non-null id, sent as a single
\* body, receives exactly one response, which bears that id, whatever its
\* method, the notifications/* methods included.
C33_IdAloneDecidesResponse ==
  (SingleMessage /\ ~IdAbsentOrNull(Parsed.v)) =>
    /\ last.kind = "response"
    /\ last.response.id = Parsed.v.id

\* C33 witness: notifications/initialized sent with id "1" is answered with
\* nothing
C33_Witness ==
  /\ last.op = "processRequest"
  /\ SingleMessage
  /\ Parsed.v.id = "1"
  /\ Parsed.v.method = M2("notifications", "initialized")
  /\ last.kind = "null"
  /\ last.response = NoResponse

\* for every other method a message with an id that handleSingle answers at
\* all is answered with one response of that id
AnsweredUnlessSilent ==
  (/\ SingleMessage
   /\ ~IdAbsentOrNull(Parsed.v)
   /\ NormalForm(Parsed.v.method) \notin SilentMethods
   /\ last.kind \notin {"throw", "pending"}) =>
    /\ last.kind = "response"
    /\ last.response.id = Parsed.v.id

\* a JSON-RPC 2.0 response: jsonrpc "2.0" and exactly one of result, error
Envelope(response) ==
  /\ response.jsonrpc = "2.0"
  /\ response.has \in {{"result"}, {"error"}}
  /\ response.has = {"result"} => response.result # NoResult
  /\ response.has = {"error"} => response.error.code < 0

\* the id a response to v has to bear: the id of v, null when v has none
IdToEcho(v) == IF v.t = "object" /\ ~IdAbsentOrNull(v) THEN v.id ELSE JNull

\* a is b with some of its elements left out
RECURSIVE IsSubsequence(_, _)
IsSubsequence(a, b) ==
  IF a = <<>> THEN TRUE
  ELSE IF b = <<>> THEN FALSE
  ELSE IF a[1] = b[1] THEN IsSubsequence(Tail(a), Tail(b))
  ELSE IsSubsequence(a, Tail(b))

\* C34: every response emitted, as the single response, as an element of
\* the array of a batch or as a frame of a stream, has jsonrpc "2.0",
\* exactly one of result and error, and the id of the message it answers,
\* null when that message has no usable id or could not be parsed.
C34_ResponsesAreEnvelopes ==
  /\ (ViaHandleRequest /\ last.kind = "response") =>
       /\ Envelope(last.response)
       /\ last.response.id = IF Parsed.ok THEN IdToEcho(Parsed.v) ELSE JNull
  /\ (ViaHandleRequest /\ last.kind = "batch") =>
       /\ \A i \in 1..Len(last.responses) : Envelope(last.responses[i])
       /\ IsSubsequence(IdsOf(last.responses),
                        [i \in 1..Len(Parsed.v.elems) |-> IdToEcho(Parsed.v.elems[i])])
  /\ last.op = "stream" =>
       \A i \in 1..Len(last.frames) :
         /\ Envelope(last.frames[i].payload)
         /\ last.frames[i].payload.id =
              IF last.frames[i].of.ok THEN IdToEcho(last.frames[i].of.v) ELSE JNull

\* C34 witness: a stream of a tools/call without id and a ping with id "1"
\* is answered with a frame of id null and a frame of id "1"
C34_Witness ==
  /\ last.op = "stream"
  /\ Len(last.frames) = 2
  /\ last.frames[1].payload.id = JNull
  /\ last.frames[1].payload.has = {"result"}
  /\ last.frames[2].payload.id = "1"
  /\ last.frames[2].of.v.id = "1"

\* a batch answered with an error and a result, each with the id of its entry
BatchOfEnvelopes ==
  /\ ViaHandleRequest
  /\ last.kind = "batch"
  /\ \E i, j \in 1..Len(last.responses) :
       /\ last.responses[i].has = {"error"}
       /\ last.responses[j].has = {"result"}
       /\ last.responses[i].id # last.responses[j].id
       /\ JNull \notin {last.responses[i].id, last.responses[j].id}

\* the calls recorded for a tool in a metrics tracker
CallsIn(m, toolName) ==
  IF toolName \in DOMAIN m.tools THEN m.tools[toolName].calls ELSE 0

\* the call has ended: it was answered or it failed
Exited == last.kind # "pending"

\* C35: a tools/call that names a discovered tool is recorded exactly once
\* in the metrics of that tool on every path by which the call ends: the
\* calls counter of the tool is one more than the exchange found it, and
\* the counters of the other tools are unchanged.
C35_CallRecordedOnce ==
  (ToolCall /\ Exited) =>
    /\ CallsIn(metrics, TheTool.name) = CallsIn(last.pre.metrics, TheTool.name) + 1
    /\ \A n \in DOMAIN metrics.tools \ {TheTool.name} :
         CallsIn(metrics, n) = CallsIn(last.pre.metrics, n)

\* C35 witness: the handler of smart-hello rejects with undefined or null, the
\* call ends by a rejection of the request and is not recorded
C35_Witness ==
  /\ ToolCall
  /\ Exited
  /\ TheTool.name = "smart-hello"
  /\ last.request.beh.settle = "rejects_nullish"
  /\ last.kind = "throw"
  /\ last.invoked = <<"smart-hello">>
  /\ CallsIn(metrics, "smart-hello") = CallsIn(last.pre.metrics, "smart-hello")

\* on every path but that one the call is recorded once
RecordedUnlessCatchFails ==
  (ToolCall /\ Exited /\ last.kind # "throw") => C35_CallRecordedOnce

\* calls that end in each way were recorded: a result, a tool-level error,
\* a protocol error
RecordedPaths ==
  /\ ToolCall
  /\ Exited
  /\ last.kind = "response"
  /\ CallsIn(metrics, TheTool.name) = 1
  /\ \/ ToolLevelError /\ last.request.beh.settle = "never"
     \/ IsError(last.response, INVALID_PARAMS)

\* handler i, abandoned by a timeout, settles in this step
SettlesLate(i) ==
  /\ i <= Len(handlers)
  /\ handlers[i].state = "abandoned"
  /\ handlers'[i].state = "late"

Executing(handler) == handler.state \in {"awaited", "abandoned"}

\* the handlers started for the entries of one batch, two by two
SameBatch(i, j) ==
  /\ i < j
  /\ j <= Len(handlers)
  /\ handlers[i].conn = handlers[j].conn

\* C37 as stated: of the handlers started by one batch at most one is
\* executing at any time, also after a timeout.
C37_OneHandlerExecutingPerBatch ==
  \A i, j \in 1..Len(handlers) :
    SameBatch(i, j) => ~(Executing(handlers[i]) /\ Executing(handlers[j]))

\* C37, amended: of the handlers started by one batch at most one is
\* awaited at any time: the handler of a later entry is started only when
\* the await of every earlier entry has ended, by the settlement of its
\* handler or by its timeout; a handler abandoned by a timeout may still be
\* executing then.
C37_OneHandlerAwaitedPerBatch ==
  \A i, j \in 1..Len(handlers) :
    SameBatch(i, j) =>
      /\ handlers[i].entry < handlers[j].entry
      /\ handlers[i].state # "awaited"
      /\ Executing(handlers[i]) =>
           /\ handlers[i].state = "abandoned"
           /\ toolTimeoutMs.finite /\ toolTimeoutMs.ms > 0

\* C37 witness: the first call of a batch has timed out while its handler
\* never settles, and the handler of the second call is awaited
C37_Witness ==
  /\ Len(handlers) = 2
  /\ SameBatch(1, 2)
  /\ handlers[1].state = "abandoned"
  /\ handlers[1].beh.settle = "never"
  /\ handlers[2].state = "awaited"
  /\ Len(inflight) = 1
  /\ inflight[1].at = 2
  /\ Len(inflight[1].responses) = 1

\* a batch of two calls was answered with two responses, in order
BatchAnsweredInOrder ==
  /\ last.op = "post"
  /\ last.kind = "batch"
  /\ IdsOf(last.responses) = <<"1", "2">>
  /\ last.invoked = <<"plain", "plain">>
  /\ \A i \in 1..Len(handlers) : handlers[i].state \in {"settled", "abandoned"}

\* the discovery returned a table
TableReturned == DirectoryDiscovered /\ value.k = "return"

\* C38: the names of the tools of one discovery are unique: two tool files
\* never get the same name, so that a name finds exactly one descriptor.
C38_ToolNamesUnique ==
  TableReturned =>
    \A i \in 1..Len(value.tools) :
      Named(value.tools, value.tools[i].name) = {i}

\* C38 witness: the files a-b.ts and a/b.ts are both registered under the
\* name a-b; a call by that name finds the first
C38_Witness ==
  /\ TableReturned
  /\ Len(value.tools) = 2
  /\ value.tools[1].file = <<"a", "-", "b", ".ts">>
  /\ value.tools[2].file = <<"a", "/", "b", ".ts">>
  /\ Named(value.tools, <<"a", "-", "b">>) = {1, 2}

\* the files of the directory have names of their own
DistinctNames ==
  \A x, y \in subject.listing :
    toolNameFromPath(x.file) = toolNameFromPath(y.file) => x = y

\* then the names of the table are unique
UniqueWhenDistinct == DistinctNames => C38_ToolNamesUnique

\* b.ts and b.js are registered under the one name b
SameNameByExtension ==
  /\ TableReturned
  /\ Len(value.tools) = 2
  /\ value.tools[1].file = <<"b", ".js">>
  /\ value.tools[2].file = <<"b", ".ts">>
  /\ value.tools[1].name = value.tools[2].name

\* what importing the file of a descriptor gives
ModuleOf(tool) ==
  (CHOOSE f \in subject.listing : f.file = tool.file).module

\* C39: in strict and in non-strict mode every tool of the table has a
\* callable default export that is async; a file that fails either check
\* is not registered.
C39_RegisteredToolsAreAsync ==
  TableReturned =>
    \A i \in 1..Len(value.tools) : ModuleOf(value.tools[i]) = "async"

\* C39 witness: a non-strict discovery has registered a file whose default
\* export is a plain function, with a warning
C39_Witness ==
  /\ TableReturned
  /\ ~subject.failOnInvalid
  /\ Len(value.tools) = 1
  /\ ModuleOf(value.tools[1]) = "sync"
  /\ value.warnings = <<"default export must be async">>

\* every tool of the table has a callable default export, and in strict
\* mode an async one
RegisteredToolsAreCallable ==
  TableReturned =>
    \A i \in 1..Len(value.tools) :
      /\ ModuleOf(value.tools[i]) \in {"async", "sync"}
      /\ subject.failOnInvalid => ModuleOf(value.tools[i]) = "async"

\* a non-strict discovery has skipped a file without callable default export
UncallableSkipped ==
  /\ TableReturned
  /\ \E f \in subject.listing : f.module \in {"none", "value"}
  /\ \E f \in subject.listing : f.module = "throws"
  /\ value.tools = <<>>
  /\ Len(value.warnings) = 2

\* the children of the dev command that the operating system still runs
AliveChildren ==
  {pid \in DOMAIN dev.processes :
     dev.processes[pid] \in {"running", "terminating"}}

\* C40: the dev command keeps at most one child server process alive: at
\* every moment at most one child runs, and whenever a replacement child is
\* spawned every child spawned before it has terminated.
C40_OneChildAlive ==
  /\ [](Cardinality(AliveChildren) <= 1)
  /\ [][Len(dev'.processes) > Len(dev.processes) => AliveChildren = {}]_vars

\* a restart: the replacement runs while the child before it, signalled, has
\* not exited yet
C40_Witness ==
  /\ dev.started
  /\ dev.child >= 2
  /\ dev.processes[dev.child] = "running"
  /\ dev.processes[dev.child - 1] = "terminating"

\* what start() does ensure: every child but the present one has been sent
\* SIGTERM or has exited, so at most one child runs unsignalled
PreviousChildrenSignalled ==
  \A pid \in DOMAIN dev.processes :
    pid # dev.child => dev.processes[pid] # "running"

\* the third child has been spawned and the first two have exited
RestartedInTurn ==
  /\ Len(dev.processes) = 3
  /\ dev.processes[1] = "exited"
  /\ dev.processes[2] = "exited"
  /\ dev.processes[3] = "running"

====
